---------------------------- MODULE Spec2Model ----------------------------
(***************************************************************************)
(* Restaurant_Manager (restaurant_dummy): the POS transaction synthesizer, *)
(* the roster/shift synthesizer, the importers and the worked-hours        *)
(* helper, with the sqlite-backed record store they write to.              *)
(*                                                                         *)
(* Units.  Money is held in cents (18.50 -> 1850), hours in hundredths of  *)
(* an hour (8.5 -> 850), a labour cost in hundredth-hours x cents          *)
(* (1e-4 of a currency unit), so that every product of the code is exact.  *)
(* A date is the number of days since 1900-01-01, which was a Monday:      *)
(* date.weekday() is d % 7.  Character data that the code parses or        *)
(* formats (time strings, employee ids) is a sequence of one-character     *)
(* strings; other text is a TLA+ string.                                   *)
(***************************************************************************)
EXTENDS Integers, Sequences, FiniteSets, TLC

VARIABLES
    pos_sales,      \* table pos_sales: sequence of rows, row k has id k
    roster_data,    \* table roster_data: sequence of rows, row k has id k
    pc,             \* position of the running handler
    loop,           \* locals of the running process_date call
    gen,            \* the record last built by a _generate_* call
    imp,            \* the last import call: its input and what became of it
    hrs,            \* the last calculate_worked_hours call: input and result
    employees_table,\* table employees: the rows in the order they were written
    ret             \* the last summary, fetch or validation call: input and result

vars == <<pos_sales, roster_data, pc, loop, gen, imp, hrs, employees_table, ret>>

None == <<>>

-----------------------------------------------------------------------------
(* Static data of the two managers.                                        *)

\* POSManager._load_menu_items
menu_items ==
    << [name |-> "Burger Deluxe",        category |-> "Main",     price |-> 1850],
       [name |-> "Chicken Caesar Salad", category |-> "Salad",    price |-> 1600],
       [name |-> "Fish & Chips",         category |-> "Main",     price |-> 2200],
       [name |-> "Margherita Pizza",     category |-> "Pizza",    price |-> 2000],
       [name |-> "Beef Steak",           category |-> "Main",     price |-> 3500],
       [name |-> "Pasta Carbonara",      category |-> "Pasta",    price |-> 1950],
       [name |-> "Greek Salad",          category |-> "Salad",    price |-> 1450],
       [name |-> "Cappuccino",           category |-> "Beverage", price |-> 450],
       [name |-> "Latte",                category |-> "Beverage", price |-> 480],
       [name |-> "Fresh Orange Juice",   category |-> "Beverage", price |-> 650],
       [name |-> "House Wine (Glass)",   category |-> "Alcohol",  price |-> 950],
       [name |-> "Beer (Pint)",          category |-> "Alcohol",  price |-> 750],
       [name |-> "Chocolate Cake",       category |-> "Dessert",  price |-> 850],
       [name |-> "Ice Cream Sundae",     category |-> "Dessert",  price |-> 700] >>

Digits == <<"0", "1", "2", "3", "4", "5", "6", "7", "8", "9">>

\* f"{n:03d}" for 0 <= n <= 999
Pad3(n) ==
    << Digits[((n \div 100) % 10) + 1], Digits[((n \div 10) % 10) + 1], Digits[(n % 10) + 1] >>

\* f"EMP{n:03d}"
EmpId(n) == <<"E", "M", "P">> \o Pad3(n)

\* RosterManager._load_employees
employees ==
    << [id |-> EmpId(1), name |-> "Alice Johnson", position |-> "Manager",      hourly_rate |-> 2850],
       [id |-> EmpId(2), name |-> "Bob Smith",     position |-> "Chef",         hourly_rate |-> 2500],
       [id |-> EmpId(3), name |-> "Carol Davis",   position |-> "Server",       hourly_rate |-> 2250],
       [id |-> EmpId(4), name |-> "David Wilson",  position |-> "Server",       hourly_rate |-> 2250],
       [id |-> EmpId(5), name |-> "Emma Brown",    position |-> "Kitchen Hand", hourly_rate |-> 2000],
       [id |-> EmpId(6), name |-> "Frank Miller",  position |-> "Bartender",    hourly_rate |-> 2400],
       [id |-> EmpId(7), name |-> "Grace Taylor",  position |-> "Server",       hourly_rate |-> 2250],
       [id |-> EmpId(8), name |-> "Henry Lee",     position |-> "Kitchen Hand", hourly_rate |-> 2000] >>

Positions == {"Manager", "Chef", "Server", "Kitchen Hand", "Bartender"}

\* RosterManager._load_positions
positions ==
    [p \in Positions |->
        CASE p = "Manager"      -> [min_hours |-> 7, max_hours |-> 9, shifts_per_week |-> 5]
          [] p = "Chef"         -> [min_hours |-> 6, max_hours |-> 8, shifts_per_week |-> 5]
          [] p = "Server"       -> [min_hours |-> 4, max_hours |-> 8, shifts_per_week |-> 4]
          [] p = "Kitchen Hand" -> [min_hours |-> 4, max_hours |-> 7, shifts_per_week |-> 4]
          [] p = "Bartender"    -> [min_hours |-> 5, max_hours |-> 8, shifts_per_week |-> 4]]

\* date.weekday(): 0 is Monday; day 0 (1900-01-01) was a Monday
weekday(d) == d % 7

\* datetime.time(h, m, s)
Time(h, m, s) == [h |-> h, m |-> m, s |-> s]

\* seconds since midnight of a datetime.time
SecondsOf(t) == t.h * 3600 + t.m * 60 + t.s

-----------------------------------------------------------------------------
(* The synthesizers' record builders, as functions of their random draws.  *)

\* the draws of one _generate_transaction call: random.randint(9, 22),
\* random.randint(0, 59) twice (sampled), random.choice(menu_items),
\* random.choices([1, 2, 3], ...), random.randint(1, 8)
SampleMinutes == {0, 30, 59}
SampleSeconds == {0, 59}
QuantityChoices == <<1, 2, 3>>
TransactionDraws ==
    [hour : 9..22, minute : SampleMinutes, second : SampleSeconds,
     item : 1..Len(menu_items), qidx : 1..Len(QuantityChoices), emp : 1..8]

\* a plausible slip: the total is the unit price, the quantity forgotten
MutGenerateTransaction(sale_date, d) ==
    LET item == menu_items[d.item]
    IN  [sale_date |-> sale_date, sale_time |-> Time(d.hour, d.minute, d.second),
         item_name |-> item.name, item_category |-> item.category,
         quantity |-> QuantityChoices[d.qidx], unit_price |-> item.price,
         total_amount |-> item.price, employee_id |-> EmpId(d.emp)]

\* POSManager._generate_transaction
GenerateTransaction(sale_date, d) ==
    LET sale_time    == Time(d.hour, d.minute, d.second)
        item         == menu_items[d.item]
        quantity     == QuantityChoices[d.qidx]
        employee_id  == EmpId(d.emp)
        unit_price   == item.price
        total_amount == unit_price * quantity
    IN  [sale_date |-> sale_date, sale_time |-> sale_time,
         item_name |-> item.name, item_category |-> item.category,
         quantity |-> quantity, unit_price |-> unit_price,
         total_amount |-> total_amount, employee_id |-> employee_id]

\* round(x, 2) of a value given in thousandths of an hour, in hundredths
Round2(milli) == (milli + 5) \div 10

\* the window random.randint draws the start hour from, by position
StartHours(position) ==
    IF position = "Manager" THEN 8..11
    ELSE IF position = "Chef" THEN 9..12
    ELSE 10..15

StartMinutes == {0, 15, 30, 45}

\* the draws of one _generate_shift call for an employee: random.uniform(
\* min_hours, max_hours) at a resolution of a thousandth of an hour, the
\* start hour and the start minute
ShiftDraws(employee) ==
    LET cfg == positions[employee.position]
    IN  [milli : (cfg.min_hours * 1000)..(cfg.max_hours * 1000),
         start_hour : StartHours(employee.position),
         start_minute : StartMinutes]

\* datetime.combine(date, time) + timedelta(hours = h), h in hundredths of
\* an hour: <<date, time>> of the result (36 seconds to a hundredth)
AddHours(date, t, h) ==
    LET total == SecondsOf(t) + h * 36
        secs  == total % 86400
    IN  << date + (total \div 86400),
           Time(secs \div 3600, (secs % 3600) \div 60, secs % 60) >>

\* a plausible slip: the cost is computed from the policy's max_hours
MutGenerateShift(employee, shift_date, d) ==
    LET cfg        == positions[employee.position]
        shift_hours == Round2(d.milli)
        start_time == Time(d.start_hour, d.start_minute, 0)
    IN  [employee_id |-> employee.id, employee_name |-> employee.name,
         shift_date |-> shift_date, start_time |-> start_time,
         end_time |-> AddHours(shift_date, start_time, shift_hours)[2],
         worked_hours |-> shift_hours, hourly_rate |-> employee.hourly_rate,
         total_cost |-> cfg.max_hours * 100 * employee.hourly_rate,
         position |-> employee.position]

\* RosterManager._generate_shift
GenerateShift(employee, shift_date, d) ==
    LET position_config == positions[employee.position]
        shift_hours  == Round2(d.milli)
        start_time   == Time(d.start_hour, d.start_minute, 0)
        end_datetime == AddHours(shift_date, start_time, shift_hours)
        end_time     == end_datetime[2]
        hourly_rate  == employee.hourly_rate
        total_cost   == shift_hours * hourly_rate
    IN  [employee_id |-> employee.id, employee_name |-> employee.name,
         shift_date |-> shift_date, start_time |-> start_time,
         end_time |-> end_time, worked_hours |-> shift_hours,
         hourly_rate |-> hourly_rate, total_cost |-> total_cost,
         position |-> employee.position]

\* the dates the handlers are run for: one full week, a Monday to a Sunday
TargetDates == 46326..46332

-----------------------------------------------------------------------------
(* The record store (database.py).  A row's id is its position: the        *)
(* tables are AUTOINCREMENT and no statement of the program deletes.       *)

\* dict.get(key): the value, or None when the key is absent
Get(record, key) == IF key \in DOMAIN record THEN record[key] ELSE None

\* Database.insert_pos_sale when the INSERT succeeds: the table afterwards
\* and cursor.lastrowid
InsertPosSale(rows, sale_data) ==
    LET row == [id            |-> Len(rows) + 1,
                sale_date     |-> sale_data["sale_date"],
                sale_time     |-> sale_data["sale_time"],
                item_name     |-> sale_data["item_name"],
                item_category |-> Get(sale_data, "item_category"),
                quantity      |-> sale_data["quantity"],
                unit_price    |-> sale_data["unit_price"],
                total_amount  |-> sale_data["total_amount"],
                employee_id   |-> Get(sale_data, "employee_id")]
    IN  [rows |-> Append(rows, row), lastrowid |-> Len(rows) + 1]

\* Database.insert_roster_record when the INSERT succeeds
InsertRosterRecord(rows, roster) ==
    LET row == [id            |-> Len(rows) + 1,
                employee_id   |-> roster["employee_id"],
                employee_name |-> roster["employee_name"],
                shift_date    |-> roster["shift_date"],
                start_time    |-> roster["start_time"],
                end_time      |-> roster["end_time"],
                worked_hours  |-> roster["worked_hours"],
                hourly_rate   |-> Get(roster, "hourly_rate"),
                total_cost    |-> Get(roster, "total_cost"),
                position      |-> Get(roster, "position")]
    IN  [rows |-> Append(rows, row), lastrowid |-> Len(rows) + 1]

-----------------------------------------------------------------------------
(* POSManager.process_date and RosterManager.process_date, one loop        *)
(* iteration to a step.  An INSERT either succeeds or raises (sqlite3      *)
(* rejects the statement: an I/O error, a constraint, a parameter of a     *)
(* type it cannot bind); which one is the store's choice.                  *)

\* store failures injected into one POS batch
MaxPosFailures == 2

\* a plausible slip: Saturday counted as a weekday
MutNumTransactions(target_date) ==
    IF weekday(target_date) <= 5 THEN 80..120 ELSE 120..180

\* the values random.randint can give num_transactions for a date
NumTransactions(target_date) ==
    IF weekday(target_date) < 5 THEN 80..120 ELSE 120..180

\* the random source of a POS batch: the draws every _generate_transaction
\* of the batch for a date makes (one sample of TransactionDraws per date)
BatchTransactionDraw(target_date) ==
    [hour |-> 9 + (target_date % 14), minute |-> 30, second |-> 59,
     item |-> 1 + ((5 * target_date) % Len(menu_items)),
     qidx |-> 1 + (target_date % 3), emp |-> 1 + ((3 * target_date) % 8)]

\* the loop body after insert_pos_sale returned sale_id
PosInserted(l, sale_id) ==
    [l EXCEPT !.i = @ + 1, !.attempted = @ + 1,
              !.inserted = IF sale_id # 0 THEN @ + 1 ELSE @]

\* a plausible slip: the except clause leaves the loop (break)
MutPosFailed(l) ==
    [l EXCEPT !.i = l.planned, !.attempted = @ + 1, !.failures = @ + 1]

\* the loop body when insert_pos_sale raised: logged, next iteration
PosFailed(l) ==
    [l EXCEPT !.i = @ + 1, !.attempted = @ + 1, !.failures = @ + 1]

PosProcessDateStart ==
    /\ pc = "idle"
    /\ \E target_date \in TargetDates :
         \E num_transactions \in NumTransactions(target_date) :
            loop' = [op |-> "pos", target_date |-> target_date,
                     planned |-> num_transactions, i |-> 0, inserted |-> 0,
                     attempted |-> 0, failures |-> 0,
                     rows_before |-> Len(pos_sales), working |-> <<>>,
                     returned |-> -1]
    /\ pc' = "pos_loop"
    /\ UNCHANGED <<pos_sales, roster_data, gen, imp, hrs, employees_table, ret>>

PosProcessDateStep ==
    /\ pc = "pos_loop"
    /\ loop.i < loop.planned
    /\ LET transaction == GenerateTransaction(loop.target_date, BatchTransactionDraw(loop.target_date))
           done == InsertPosSale(pos_sales, transaction)
       IN  \/ /\ pos_sales' = done.rows
              /\ loop' = PosInserted(loop, done.lastrowid)
           \/ /\ loop.failures < MaxPosFailures
              /\ pos_sales' = pos_sales
              /\ loop' = PosFailed(loop)
    /\ UNCHANGED <<roster_data, pc, gen, imp, hrs, employees_table, ret>>

PosProcessDateReturn ==
    /\ pc = "pos_loop"
    /\ loop.i >= loop.planned
    /\ loop' = [loop EXCEPT !.returned = loop.inserted]
    /\ pc' = "done"
    /\ UNCHANGED <<pos_sales, roster_data, gen, imp, hrs, employees_table, ret>>

\* values of random.random(), in hundredths: each threshold and its neighbours
RandomSamples == {0, 49, 50, 69, 70, 79, 80, 84, 85, 99}

\* RosterManager._get_working_employees, the body of its loop: whether the
\* employee is appended, given the draws r1 and (if a second one is made) r2
Attends(emp, date, r1, r2) ==
    IF emp.position = "Manager" THEN r1 < 85
    ELSE IF weekday(date) < 5
         THEN IF emp.position \in {"Chef", "Server"}
              THEN r1 < 70 \/ r2 < 50
              ELSE r1 < 50
         ELSE r1 < 80

\* the random source of a batch: the draws of the _generate_shift of the
\* i-th working employee
ShiftDrawAt(emp, i) ==
    LET cfg   == positions[emp.position]
        hours == StartHours(emp.position)
        lo    == CHOOSE h \in hours : \A g \in hours : h <= g
    IN  [milli |-> cfg.min_hours * 1000 + ((1237 * (i + 1)) % ((cfg.max_hours - cfg.min_hours) * 1000 + 1)),
         start_hour |-> lo + (i % Cardinality(hours)),
         start_minute |-> 15 * (i % 4)]

\* the loop body after insert_roster_record returned shift_id
RosterInserted(l, shift_id) ==
    [l EXCEPT !.i = @ + 1, !.attempted = @ + 1,
              !.inserted = IF shift_id # 0 THEN @ + 1 ELSE @]

\* the loop body when insert_roster_record raised: logged, next employee
RosterFailed(l) ==
    [l EXCEPT !.i = @ + 1, !.attempted = @ + 1, !.failures = @ + 1]

RosterProcessDateStart ==
    /\ pc = "idle"
    /\ \E target_date \in TargetDates :
          loop' = [op |-> "roster", target_date |-> target_date,
                   planned |-> 0, i |-> 0, inserted |-> 0,
                   attempted |-> 0, failures |-> 0,
                   rows_before |-> Len(roster_data), working |-> <<>>,
                   returned |-> -1]
    /\ pc' = "roster_sched"
    /\ UNCHANGED <<pos_sales, roster_data, gen, imp, hrs, employees_table, ret>>

\* _get_working_employees: the decision for the next employee of the roster
RosterSchedule ==
    /\ pc = "roster_sched"
    /\ LET k   == loop.i + 1
           emp == employees[k]
       IN  /\ \E r1, r2 \in RandomSamples :
                LET working == IF Attends(emp, loop.target_date, r1, r2)
                               THEN Append(loop.working, emp)
                               ELSE loop.working
                IN  loop' = IF k < Len(employees)
                            THEN [loop EXCEPT !.i = k, !.working = working]
                            ELSE [loop EXCEPT !.i = 0, !.working = working,
                                              !.planned = Len(working)]
           /\ pc' = IF k < Len(employees) THEN "roster_sched" ELSE "roster_loop"
    /\ UNCHANGED <<pos_sales, roster_data, gen, imp, hrs, employees_table, ret>>

RosterProcessDateStep ==
    /\ pc = "roster_loop"
    /\ loop.i < Len(loop.working)
    /\ LET emp   == loop.working[loop.i + 1]
           shift == GenerateShift(emp, loop.target_date, ShiftDrawAt(emp, loop.i))
           done  == InsertRosterRecord(roster_data, shift)
       IN  \/ /\ roster_data' = done.rows
              /\ loop' = RosterInserted(loop, done.lastrowid)
           \/ /\ roster_data' = roster_data
              /\ loop' = RosterFailed(loop)
    /\ UNCHANGED <<pos_sales, pc, gen, imp, hrs, employees_table, ret>>

RosterProcessDateReturn ==
    /\ pc = "roster_loop"
    /\ loop.i >= Len(loop.working)
    /\ loop' = [loop EXCEPT !.returned = loop.inserted]
    /\ pc' = "done"
    /\ UNCHANGED <<pos_sales, roster_data, gen, imp, hrs, employees_table, ret>>

NoLoop == [op |-> "none"]
NoGen  == [kind |-> "none"]
NoImp  == [kind |-> "none"]
NoHrs  == [kind |-> "none"]
NoRet  == [kind |-> "none"]

InitBatch ==
    /\ pos_sales = <<>>
    /\ roster_data = <<>>
    /\ pc = "idle"
    /\ loop = NoLoop
    /\ gen = NoGen
    /\ imp = NoImp
    /\ hrs = NoHrs
    /\ employees_table = <<>>
    /\ ret = NoRet

NextBatch ==
    \/ PosProcessDateStart
    \/ PosProcessDateStep
    \/ PosProcessDateReturn
    \/ RosterProcessDateStart
    \/ RosterSchedule
    \/ RosterProcessDateStep
    \/ RosterProcessDateReturn

\* one process_date call of either manager on a fresh store
SpecBatch == InitBatch /\ [][NextBatch]_vars

-----------------------------------------------------------------------------
(* The record builders on every draw.                                      *)

\* the dates the builders are called with: a Monday and a Thursday
GenDates == {46326, 46329}

GenTransaction ==
    /\ pc = "gen"
    /\ \E sale_date \in GenDates, d \in TransactionDraws :
          gen' = [kind |-> "sale", record |-> GenerateTransaction(sale_date, d)]
    /\ pc' = "done"
    /\ UNCHANGED <<pos_sales, roster_data, loop, imp, hrs, employees_table, ret>>

GenShift ==
    /\ pc = "gen"
    /\ \E k \in 1..Len(employees), shift_date \in GenDates :
          \E d \in ShiftDraws(employees[k]) :
             gen' = [kind |-> "shift", employee |-> k,
                     record |-> GenerateShift(employees[k], shift_date, d)]
    /\ pc' = "done"
    /\ UNCHANGED <<pos_sales, roster_data, loop, imp, hrs, employees_table, ret>>

InitGen ==
    /\ pos_sales = <<>>
    /\ roster_data = <<>>
    /\ pc = "gen"
    /\ loop = NoLoop
    /\ gen = NoGen
    /\ imp = NoImp
    /\ hrs = NoHrs
    /\ employees_table = <<>>
    /\ ret = NoRet

NextGen == GenTransaction \/ GenShift

SpecGen == InitGen /\ [][NextGen]_vars

-----------------------------------------------------------------------------
(* RosterManager.calculate_worked_hours.  A datetime is a day (days since  *)
(* 1900-01-01, the date strptime gives a bare time) and the seconds since  *)
(* its midnight.  An argument is tagged with its Python type.              *)

StrValue(chars)          == [type |-> "str", chars |-> chars]
TimeValue(t)             == [type |-> "time", time |-> t]
DatetimeValue(day, secs) == [type |-> "datetime", day |-> day, secs |-> secs]
TimedeltaValue(secs)     == [type |-> "timedelta", secs |-> secs]
OtherValue               == [type |-> "other"]

\* f"{n:02d}"
Pad2(n) == << Digits[((n \div 10) % 10) + 1], Digits[(n % 10) + 1] >>

\* the text "HH:MM:SS" of a time of day (time.isoformat())
IsoFormat(t) == Pad2(t.h) \o <<":">> \o Pad2(t.m) \o <<":">> \o Pad2(t.s)

IsDigit(c) == \E k \in 1..10 : Digits[k] = c

DigitValue(c) == (CHOOSE k \in 1..10 : Digits[k] = c) - 1

\* the three fields of a text around its colons at positions first < second
FieldsAround(chars, first, second) ==
    << SubSeq(chars, 1, first - 1),
       SubSeq(chars, first + 1, second - 1),
       SubSeq(chars, second + 1, Len(chars)) >>

\* the fields of a text whose colons are at the given positions: three
\* fields when there are exactly two colons, else none
SplitAt(chars, colons) ==
    IF Cardinality(colons) # 2 THEN <<>>
    ELSE FieldsAround(chars, CHOOSE k \in colons : \A j \in colons : k <= j,
                             CHOOSE k \in colons : \A j \in colons : j <= k)

\* the fields of a text between its colons
SplitColon(chars) == SplitAt(chars, { k \in 1..Len(chars) : chars[k] = ":" })

\* a field of one or two decimal digits, as %H, %M and %S accept it
FieldOk(f) == Len(f) \in {1, 2} /\ \A k \in 1..Len(f) : IsDigit(f[k])

FieldValue(f) ==
    IF Len(f) = 1 THEN DigitValue(f[1]) ELSE 10 * DigitValue(f[1]) + DigitValue(f[2])

\* the datetime of the fields of a text matched against '%H:%M:%S': three
\* fields of one or two digits, hour <= 23, minute <= 59, second <= 59, on
\* 1900-01-01; anything else is a ValueError
StrptimeFields(fields) ==
    IF /\ Len(fields) = 3
       /\ \A k \in 1..3 : FieldOk(fields[k])
       /\ FieldValue(fields[1]) <= 23
       /\ FieldValue(fields[2]) <= 59
       /\ FieldValue(fields[3]) <= 59
    THEN [exc |-> FALSE, day |-> 0,
          secs |-> FieldValue(fields[1]) * 3600 + FieldValue(fields[2]) * 60
                   + FieldValue(fields[3])]
    ELSE [exc |-> TRUE, day |-> 0, secs |-> 0]

\* datetime.strptime(text, '%H:%M:%S')
Strptime(chars) == StrptimeFields(SplitColon(chars))

\* a converted argument: whether the conversion raised, the class of the
\* object and its value
Converted(exc, cls, day, secs) == [exc |-> exc, cls |-> cls, day |-> day, secs |-> secs]

\* the datetime strptime gave, or its ValueError
Parsed(p) == Converted(p.exc, "datetime", p.day, p.secs)

\* the conversion of one argument: strptime of a str, datetime.combine(
\* datetime.today(), t) of a time, anything else taken as it is: a datetime,
\* a timedelta (days 0), or an object of another class (None, a number)
ToDatetime(v, today) ==
    IF v.type = "str" THEN Parsed(Strptime(v.chars))
    ELSE IF v.type = "time" THEN Converted(FALSE, "datetime", today, SecondsOf(v.time))
    ELSE IF v.type = "datetime" THEN Converted(FALSE, "datetime", v.day, v.secs)
    ELSE IF v.type = "timedelta" THEN Converted(FALSE, "timedelta", 0, v.secs)
    ELSE Converted(FALSE, "other", 0, 0)

\* round(n / d) for n >= 0 and d > 0, a tie to the even neighbour (on a tie
\* Python rounds the float nearest to n / d, which lies a little to one side
\* of it; the times and breaks used here give no tie)
RoundHalfEven(n, d) ==
    LET q == n \div d
        r == n % d
    IN  IF 2 * r < d THEN q
        ELSE IF 2 * r > d THEN q + 1
        ELSE IF q % 2 = 0 THEN q ELSE q + 1

\* a break whose 'duration' is not a number carries the name of its type:
\* dividing it by 60 raises TypeError
BreaksRaise(meal_breaks) ==
    \E k \in 1..Len(meal_breaks) :
        "duration" \in DOMAIN meal_breaks[k] /\ "duration_type" \in DOMAIN meal_breaks[k]

RECURSIVE BreakMinutes(_)
\* the minutes of the breaks that have a 'duration'
BreakMinutes(meal_breaks) ==
    IF meal_breaks = <<>> THEN 0
    ELSE (IF "duration" \in DOMAIN Head(meal_breaks) THEN Head(meal_breaks)["duration"] ELSE 0)
         + BreakMinutes(Tail(meal_breaks))

\* the hundredths of an hour in a timedelta of whole days and seconds,
\* floored at 0 and rounded (a day is 2400 hundredths)
RoundedHours(days, seconds) ==
    IF days + (seconds \div 86400) < 0 THEN 0
    ELSE (days + (seconds \div 86400)) * 2400 + RoundHalfEven(seconds % 86400, 36)

\* a plausible slip: no except clause, the exception reaches the caller
MutHoursBetween(start_dt, end_dt, break_minutes, breaks_raise) ==
    IF \/ start_dt.exc \/ end_dt.exc
       \/ start_dt.cls # end_dt.cls
       \/ start_dt.cls = "other"
       \/ breaks_raise
    THEN [hours |-> 0, failed |-> TRUE, raised |-> TRUE]
    ELSE [hours |-> (end_dt.secs - start_dt.secs) \div 36, failed |-> FALSE, raised |-> FALSE]

\* calculate_worked_hours once both arguments are converted: a day is added
\* to an end before the start, the breaks are taken off, and an exception
\* gives the 0.0 of the except clause: a ValueError of strptime, the
\* TypeError of comparing objects of two classes, the TypeError or
\* AttributeError of objects that are neither datetimes nor timedeltas, the
\* TypeError of a break's duration
HoursBetween(start_dt, end_dt, break_minutes, breaks_raise) ==
    IF \/ start_dt.exc \/ end_dt.exc
       \/ start_dt.cls # end_dt.cls
       \/ start_dt.cls = "other"
       \/ breaks_raise
    THEN [hours |-> 0, failed |-> TRUE, raised |-> FALSE]
    ELSE [hours |->
            RoundedHours(
               (IF \/ end_dt.day < start_dt.day
                   \/ end_dt.day = start_dt.day /\ end_dt.secs < start_dt.secs
                THEN end_dt.day + 1 ELSE end_dt.day) - start_dt.day,
               (end_dt.secs - start_dt.secs) - 60 * break_minutes),
          failed |-> FALSE, raised |-> FALSE]

\* RosterManager.calculate_worked_hours: the hours returned, in hundredths,
\* and whether they are the 0.0 of the except clause.  today1 and today2 are
\* what the two datetime.today() calls return.
CalculateWorkedHours(start_time, end_time, meal_breaks, today1, today2) ==
    HoursBetween(ToDatetime(start_time, today1), ToDatetime(end_time, today2),
                 IF meal_breaks # <<>> THEN BreakMinutes(meal_breaks) ELSE 0,
                 BreaksRaise(meal_breaks))

\* times of day the helper is called with
SampleTimes ==
    { Time(0, 0, 0), Time(2, 0, 0), Time(9, 0, 0), Time(17, 30, 0),
      Time(22, 0, 0), Time(23, 59, 59) }

\* each as a structured time and as its text
TimeArguments ==
    { TimeValue(t) : t \in SampleTimes } \cup { StrValue(IsoFormat(t)) : t \in SampleTimes }

\* the text "9am", which is no HH:MM:SS
NineAm == StrValue(<<"9", "a", "m">>)

\* arguments that are no time of day: the texts "9am", "09:00" and
\* "24:00:00", an object of another class such as None or 9, and the
\* timedeltas of 9 and of 17.5 hours
MalformedArguments ==
    { NineAm,
      StrValue(<<"0", "9", ":", "0", "0">>),
      StrValue(<<"2", "4", ":", "0", "0", ":", "0", "0">>),
      OtherValue,
      TimedeltaValue(9 * 3600),
      TimedeltaValue(17 * 3600 + 1800) }

\* what calculate_worked_hours is called with
HoursArguments == TimeArguments \cup MalformedArguments

\* lists of meal breaks: none, one of 30 minutes, two of an hour together
\* with an entry that has no duration, and one longer than any shift
SampleBreaks ==
    { <<>>,
      << [duration |-> 30] >>,
      << [duration |-> 45], [note |-> "tea"], [duration |-> 15] >>,
      << [duration |-> 1500] >> }

\* lists with a break whose duration is the text '30' or None
MalformedBreaks ==
    { << [duration |-> 0, duration_type |-> "str"] >>,
      << [duration |-> 30], [duration |-> 0, duration_type |-> "NoneType"] >> }

\* the day datetime.today() gives: 2026-11-03 or the day after
Todays == {46327, 46328}

\* one call of calculate_worked_hours; the clock never runs backwards and
\* at most a midnight passes between its two reads
CalcHours ==
    /\ pc = "hours"
    /\ \E start_time \in HoursArguments, end_time \in HoursArguments,
          meal_breaks \in SampleBreaks \cup MalformedBreaks,
          today1 \in Todays, today2 \in Todays :
          /\ today1 <= today2
          /\ hrs' = [kind |-> "call", start_time |-> start_time, end_time |-> end_time,
                     meal_breaks |-> meal_breaks, today1 |-> today1, today2 |-> today2,
                     result |-> CalculateWorkedHours(start_time, end_time, meal_breaks,
                                                     today1, today2)]
    /\ pc' = "done"
    /\ UNCHANGED <<pos_sales, roster_data, loop, gen, imp, employees_table, ret>>

InitHours ==
    /\ pos_sales = <<>>
    /\ roster_data = <<>>
    /\ pc = "hours"
    /\ loop = NoLoop
    /\ gen = NoGen
    /\ imp = NoImp
    /\ hrs = NoHrs
    /\ employees_table = <<>>
    /\ ret = NoRet

NextHours == CalcHours

SpecHours == InitHours /\ [][NextHours]_vars

-----------------------------------------------------------------------------
(* POSManager.import_pos_data and RosterManager.import_roster_data.  A     *)
(* record of the input is a dict: a function from its keys.                *)

\* the dict with record[key] = value
Set(record, key, value) ==
    [k \in DOMAIN record \cup {key} |-> IF k = key THEN value ELSE record[k]]

\* the dict without the key
Without(record, key) == [k \in DOMAIN record \ {key} |-> record[k]]

PosRequiredFields == {"sale_date", "sale_time", "item_name", "quantity", "unit_price"}

RosterRequiredFields ==
    {"employee_id", "employee_name", "shift_date", "start_time", "end_time"}

\* what a loop body that got as far as the INSERT leaves behind: done is the
\* successful insert, store_fails says that the INSERT raised instead
Inserted(rows, done, store_fails) ==
    IF store_fails
    THEN [rows |-> rows, outcome |-> "error", id |-> 0, counted |-> 0]
    ELSE [rows |-> done.rows, outcome |-> "stored", id |-> done.lastrowid,
          counted |-> IF done.lastrowid # 0 THEN 1 ELSE 0]

Skipped(rows) == [rows |-> rows, outcome |-> "skipped", id |-> 0, counted |-> 0]

\* a plausible slip: the derived total is the unit price, the quantity forgotten
MutWithTotal(record) ==
    IF "total_amount" \notin DOMAIN record
    THEN Set(record, "total_amount", record["unit_price"])
    ELSE record

\* import_pos_data: "Calculate total if not provided"
WithTotal(record) ==
    IF "total_amount" \notin DOMAIN record
    THEN Set(record, "total_amount", record["quantity"] * record["unit_price"])
    ELSE record

\* the body of import_pos_data's loop for one record: the table afterwards,
\* what became of the record, the id it was stored under, and what it adds
\* to imported_count.  store_fails: insert_pos_sale raises for this record.
ImportPosRecord(rows, record, store_fails) ==
    IF ~ (\A field \in PosRequiredFields : field \in DOMAIN record)
    THEN Skipped(rows)
    ELSE Inserted(rows, InsertPosSale(rows, WithTotal(record)), store_fails)

\* a plausible slip: worked_hours is recomputed even when it was supplied
MutWithHours(record, today1, today2) ==
    Set(record, "worked_hours",
        CalculateWorkedHours(record["start_time"], record["end_time"],
                             Get(record, "meal_breaks"), today1, today2).hours)

\* import_roster_data: "Calculate worked hours if not provided"
WithHours(record, today1, today2) ==
    IF "worked_hours" \notin DOMAIN record \/ record["worked_hours"] = 0
    THEN Set(record, "worked_hours",
             CalculateWorkedHours(record["start_time"], record["end_time"],
                                  Get(record, "meal_breaks"), today1, today2).hours)
    ELSE record

\* import_roster_data: "Calculate cost if not provided"
WithCost(record) ==
    IF "total_cost" \notin DOMAIN record /\ "hourly_rate" \in DOMAIN record
    THEN Set(record, "total_cost", record["worked_hours"] * record["hourly_rate"])
    ELSE record

\* the body of import_roster_data's loop for one record
ImportRosterRecord(rows, record, store_fails, today1, today2) ==
    IF ~ (\A field \in RosterRequiredFields : field \in DOMAIN record)
    THEN Skipped(rows)
    ELSE Inserted(rows,
                  InsertRosterRecord(rows, WithCost(WithHours(record, today1, today2))),
                  store_fails)

\* a plausible slip: no try/except around the loop body, the error of a
\* record leaves import_* and reaches the caller
MutImportCaught(st, step) ==
    [st EXCEPT !.rows = step.rows,
               !.imported_count = @ + step.counted,
               !.outcomes = Append(@, [outcome |-> step.outcome, id |-> step.id]),
               !.raised = (step.outcome = "error")]

\* the state of an import loop after one record: an exception raised in
\* the body is caught and logged, and the loop goes on
ImportCaught(st, step) ==
    [st EXCEPT !.rows = step.rows,
               !.imported_count = @ + step.counted,
               !.outcomes = Append(@, [outcome |-> step.outcome, id |-> step.id])]

RECURSIVE ImportPosLoop(_, _, _, _)
\* import_pos_data from the k-th record of data_list on
ImportPosLoop(st, data_list, fails, k) ==
    IF k > Len(data_list) \/ st.raised THEN st
    ELSE ImportPosLoop(ImportCaught(st, ImportPosRecord(st.rows, data_list[k], fails[k])),
                       data_list, fails, k + 1)

RECURSIVE ImportRosterLoop(_, _, _, _, _, _)
\* import_roster_data from the k-th record of data_list on
ImportRosterLoop(st, data_list, fails, today1, today2, k) ==
    IF k > Len(data_list) \/ st.raised THEN st
    ELSE ImportRosterLoop(
            ImportCaught(st, ImportRosterRecord(st.rows, data_list[k], fails[k],
                                                today1, today2)),
            data_list, fails, today1, today2, k + 1)

ImportStart(rows) ==
    [rows |-> rows, imported_count |-> 0, outcomes |-> <<>>, raised |-> FALSE]

\* records handed to import_pos_data
GoodSale ==
    [sale_date |-> 46326, sale_time |-> StrValue(IsoFormat(Time(12, 30, 0))),
     item_name |-> "Burger Deluxe", item_category |-> "Main", quantity |-> 2,
     unit_price |-> 450, total_amount |-> 900, employee_id |-> EmpId(1)]

PosImportSamples ==
    << GoodSale,
       Without(GoodSale, "total_amount"),
       Without(Without(Without([GoodSale EXCEPT !["quantity"] = 0], "total_amount"),
                       "item_category"), "employee_id"),
       [GoodSale EXCEPT !["unit_price"] = -450, !["total_amount"] = -900],
       [GoodSale EXCEPT !["total_amount"] = 100],
       Without(Without(GoodSale, "quantity"), "total_amount") >>

\* records handed to import_roster_data
GoodShift ==
    [employee_id |-> EmpId(1), employee_name |-> "Alice Johnson", shift_date |-> 46326,
     start_time |-> StrValue(IsoFormat(Time(9, 0, 0))),
     end_time |-> StrValue(IsoFormat(Time(17, 0, 0))),
     worked_hours |-> 800, hourly_rate |-> 2850, total_cost |-> 2280000,
     position |-> "Manager"]

RosterImportSamples ==
    << GoodShift,
       Set(Without(Without([GoodShift EXCEPT !["end_time"] = StrValue(IsoFormat(Time(17, 30, 0)))],
                           "worked_hours"), "total_cost"),
           "meal_breaks", << [duration |-> 30] >>),
       [GoodShift EXCEPT !["start_time"] = StrValue(IsoFormat(Time(22, 0, 0))),
                         !["end_time"] = StrValue(IsoFormat(Time(2, 0, 0))),
                         !["worked_hours"] = 0, !["total_cost"] = 500],
       Without(Without([GoodShift EXCEPT !["start_time"] = NineAm],
                       "worked_hours"), "total_cost"),
       Without(Without([GoodShift EXCEPT !["worked_hours"] = 750], "hourly_rate"), "total_cost"),
       Without([GoodShift EXCEPT !["worked_hours"] = 750], "total_cost"),
       Without(Without(GoodShift, "end_time"), "worked_hours") >>

\* records in one imported list
MaxList == 2

\* rows the two tables hold together
MaxRows == 3

\* the lists of at most MaxList records taken from the samples
Lists(samples) ==
    UNION { [1..n -> 1..Len(samples)] : n \in 0..MaxList }

ImportPosData ==
    /\ pc = "idle"
    /\ \E picks \in Lists(PosImportSamples) :
         \E fails \in [1..Len(picks) -> BOOLEAN] :
            LET data_list == [k \in 1..Len(picks) |-> PosImportSamples[picks[k]]]
                st == ImportPosLoop(ImportStart(pos_sales), data_list, fails, 1)
            IN  /\ Len(pos_sales) + Len(roster_data) + Len(data_list) <= MaxRows
                /\ pos_sales' = st.rows
                /\ imp' = [kind |-> "pos", data_list |-> data_list, fails |-> fails,
                           rows_before |-> Len(pos_sales), outcomes |-> st.outcomes,
                           raised |-> st.raised,
                           returned |-> IF st.raised THEN -1 ELSE st.imported_count]
    /\ pc' = "imported"
    /\ UNCHANGED <<roster_data, loop, gen, hrs, employees_table, ret>>

ImportRosterData ==
    /\ pc = "idle"
    /\ \E picks \in Lists(RosterImportSamples) :
         \E fails \in [1..Len(picks) -> BOOLEAN], today1 \in Todays, today2 \in Todays :
            LET data_list == [k \in 1..Len(picks) |-> RosterImportSamples[picks[k]]]
                st == ImportRosterLoop(ImportStart(roster_data), data_list, fails,
                                       today1, today2, 1)
            IN  /\ today1 <= today2
                /\ Len(pos_sales) + Len(roster_data) + Len(data_list) <= MaxRows
                /\ roster_data' = st.rows
                /\ imp' = [kind |-> "roster", data_list |-> data_list, fails |-> fails,
                           rows_before |-> Len(roster_data), outcomes |-> st.outcomes,
                           raised |-> st.raised,
                           returned |-> IF st.raised THEN -1 ELSE st.imported_count]
    /\ pc' = "imported"
    /\ UNCHANGED <<pos_sales, loop, gen, hrs, employees_table, ret>>

\* the import call has returned its count; the caller is free to call again
ImportReturn ==
    /\ pc = "imported"
    /\ pc' = "idle"
    /\ imp' = NoImp
    /\ UNCHANGED <<pos_sales, roster_data, loop, gen, hrs, employees_table, ret>>

InitImport ==
    /\ pos_sales = <<>>
    /\ roster_data = <<>>
    /\ pc = "idle"
    /\ loop = NoLoop
    /\ gen = NoGen
    /\ imp = NoImp
    /\ hrs = NoHrs
    /\ employees_table = <<>>
    /\ ret = NoRet

NextImport == ImportPosData \/ ImportRosterData \/ ImportReturn

\* any sequence of import calls on a store that starts empty
SpecImport == InitImport /\ [][NextImport]_vars

-----------------------------------------------------------------------------
(* The queries of the record store and the summaries built on them.  The   *)
(* sqlite3 date adapter writes a date as its isoformat() text, and the     *)
(* store compares dates and times as texts.  An average is kept as the     *)
(* ratio of a sum to a count.                                              *)

\* the code points of the characters of dates and times, and of a letter
CharCode(c) ==
    IF c = "-" THEN 45
    ELSE IF c = ":" THEN 58
    ELSE IF IsDigit(c) THEN 48 + DigitValue(c)
    ELSE 97

\* the first position where two texts differ, or 0
FirstDifference(a, b, common) ==
    IF \E k \in 1..common : a[k] # b[k]
    THEN CHOOSE k \in 1..common : a[k] # b[k] /\ \A j \in 1..(k - 1) : a[j] = b[j]
    ELSE 0

\* a < b for texts, as sqlite's BINARY collation and ORDER BY compare them
TextLessAt(a, b, k) ==
    IF k = 0 THEN Len(a) < Len(b) ELSE CharCode(a[k]) < CharCode(b[k])

TextLess(a, b) ==
    TextLessAt(a, b, FirstDifference(a, b, IF Len(a) < Len(b) THEN Len(a) ELSE Len(b)))

TextLeq(a, b) == a = b \/ TextLess(a, b)

\* date.isoformat() for the days of October and November 2026
\* (2026-10-01 is day 46294, 2026-11-01 is day 46325)
IsoDate(d) ==
    IF d >= 46325
    THEN <<"2", "0", "2", "6", "-", "1", "1", "-">> \o Pad2(d - 46324)
    ELSE <<"2", "0", "2", "6", "-", "1", "0", "-">> \o Pad2(d - 46293)

\* column BETWEEN ? AND ? on dates
Between(d, start_date, end_date) ==
    TextLeq(IsoDate(start_date), IsoDate(d)) /\ TextLeq(IsoDate(d), IsoDate(end_date))

RECURSIVE SumOf(_)
\* SUM(...) / sum(...) of a sequence of numbers
SumOf(numbers) ==
    IF numbers = <<>> THEN 0
    ELSE IF Len(numbers) = 1 THEN numbers[1]
    ELSE SumOf(SubSeq(numbers, 1, Len(numbers) \div 2))
         + SumOf(SubSeq(numbers, (Len(numbers) \div 2) + 1, Len(numbers)))

\* the values of one column of a sequence of rows
Column(rows, name) == [k \in 1..Len(rows) |-> rows[k][name]]

\* value is None / IS NULL, for a value that may be a number
IsNone(v) == ToString(v) = ToString(None)

\* the values of a column that are not NULL
NotNull(values) == SelectSeq(values, LAMBDA v : ~ IsNone(v))

\* a sum over a count
Ratio(num, den) == [num |-> num, den |-> den]

\* float(AVG(column) or 0): NULL, and so 0.0, when no value is counted
Average(values) ==
    IF values = <<>> THEN Ratio(0, 1) ELSE Ratio(SumOf(values), Len(values))

\* COUNT(DISTINCT column), which passes over NULLs
CountDistinct(values) ==
    Cardinality({ values[k] : k \in { j \in 1..Len(values) : ~ IsNone(values[j]) } })

\* the rows of a table whose date column lies in the window of the last
\* `days` days that ends today
InWindow(rows, column, days, today) ==
    SelectSeq(rows, LAMBDA r : Between(r[column], today - (days - 1), today))

\* Database.get_sales_summary(days), given the rows of its WHERE clause
SalesSummaryOf(matching, days, today) ==
    [period_start       |-> today - (days - 1),
     period_end         |-> today,
     total_transactions |-> Len(matching),
     total_revenue      |-> SumOf(Column(matching, "total_amount")),
     avg_transaction    |-> Average(Column(matching, "total_amount")),
     active_days        |-> Cardinality({ IsoDate(matching[k].sale_date) :
                                            k \in 1..Len(matching) }),
     active_employees   |-> CountDistinct(Column(matching, "employee_id"))]

\* a plausible slip: the window is a day too long
MutGetSalesSummary(rows, days, today) ==
    SalesSummaryOf(InWindow(rows, "sale_date", days + 1, today), days, today)

\* Database.get_sales_summary(days) when datetime.now().date() is today
GetSalesSummary(rows, days, today) ==
    SalesSummaryOf(InWindow(rows, "sale_date", days, today), days, today)

\* Database.get_roster_summary(days), given the rows of its WHERE clause
RosterSummaryOf(matching, days, today) ==
    [period_start        |-> today - (days - 1),
     period_end          |-> today,
     total_shifts        |-> Len(matching),
     total_hours         |-> SumOf(Column(matching, "worked_hours")),
     avg_hours_per_shift |-> Average(Column(matching, "worked_hours")),
     total_labor_cost    |-> SumOf(NotNull(Column(matching, "total_cost"))),
     active_employees    |-> CountDistinct(Column(matching, "employee_id"))]

\* Database.get_roster_summary(days) when datetime.now().date() is today
GetRosterSummary(rows, days, today) ==
    RosterSummaryOf(InWindow(rows, "shift_date", days, today), days, today)

\* ORDER BY column for a column of time texts: rows with equal texts come
\* in the order of their ids, the order in which sqlite scans them
Before(a, b, column) ==
    \/ TextLess(a[column].chars, b[column].chars)
    \/ a[column].chars = b[column].chars /\ a.id < b.id

OrderBy(rows, column) ==
    [k \in 1..Len(rows) |->
        rows[CHOOSE i \in 1..Len(rows) :
                Cardinality({ j \in 1..Len(rows) : Before(rows[j], rows[i], column) }) = k - 1]]

\* Database.get_daily_sales(date)
GetDailySales(rows, date) ==
    OrderBy(SelectSeq(rows, LAMBDA r : IsoDate(r.sale_date) = IsoDate(date)), "sale_time")

\* Database.get_daily_roster(date)
GetDailyRoster(rows, date) ==
    OrderBy(SelectSeq(rows, LAMBDA r : IsoDate(r.shift_date) = IsoDate(date)), "start_time")

\* the positions at which an item name occurs for the first time
FirstPositions(sales) ==
    { k \in 1..Len(sales) : \A j \in 1..(k - 1) : sales[j].item_name # sales[k].item_name }

\* the n-th smallest number of a set
NthSmallest(S, n) == CHOOSE x \in S : Cardinality({ y \in S : y < x }) = n - 1

\* the summed quantity of one item
QuantityOf(sales, item_name) ==
    SumOf(Column(SelectSeq(sales, LAMBDA r : r.item_name = item_name), "quantity"))

\* item_counts.items(): a dict keeps its keys in the order of insertion
ItemCounts(sales) ==
    [n \in 1..Cardinality(FirstPositions(sales)) |->
        [item     |-> sales[NthSmallest(FirstPositions(sales), n)].item_name,
         quantity |-> QuantityOf(sales, sales[NthSmallest(FirstPositions(sales), n)].item_name)]]

\* sorted(items, key=quantity, reverse=True): stable, equal quantities keep
\* their order
SortedByQuantity(items) ==
    [n \in 1..Len(items) |->
        items[CHOOSE i \in 1..Len(items) :
                Cardinality({ j \in 1..Len(items) :
                                \/ items[j].quantity > items[i].quantity
                                \/ items[j].quantity = items[i].quantity /\ j < i }) = n - 1]]

\* a plausible slip: the items are not sorted
MutTopItems(sales) ==
    SubSeq(ItemCounts(sales), 1, IF Len(ItemCounts(sales)) < 5 THEN Len(ItemCounts(sales)) ELSE 5)

\* top_items: the first five
TopItems(sales) ==
    SubSeq(SortedByQuantity(ItemCounts(sales)), 1,
           IF Len(ItemCounts(sales)) < 5 THEN Len(ItemCounts(sales)) ELSE 5)

\* datetime.strptime(sale['sale_time'], '%H:%M:%S').hour
HourOf(sale) == Strptime(sale.sale_time.chars).secs \div 3600

\* a plausible slip: a sale is put in the bucket of the hour it ends in
MutHourlyBreakdown(sales) ==
    [hour \in { (HourOf(sales[k]) + 1) % 24 : k \in 1..Len(sales) } |->
        [transactions |-> Len(SelectSeq(sales, LAMBDA r : (HourOf(r) + 1) % 24 = hour)),
         revenue      |-> 0]]

\* hourly_breakdown, keyed by the hour
HourlyBreakdown(sales) ==
    [hour \in { HourOf(sales[k]) : k \in 1..Len(sales) } |->
        [transactions |-> Len(SelectSeq(sales, LAMBDA r : HourOf(r) = hour)),
         revenue      |-> SumOf(Column(SelectSeq(sales, LAMBDA r : HourOf(r) = hour),
                                       "total_amount"))]]

\* POSManager.get_daily_summary(date), given the day's sales: the summary,
\* or the ValueError of a sale_time that is no HH:MM:SS
PosDailySummaryOf(sales, date) ==
    IF sales = <<>>
    THEN [raised |-> FALSE,
          result |-> [date |-> IsoDate(date), total_transactions |-> 0, total_revenue |-> 0,
                      items_sold |-> 0, top_items |-> <<>>, hourly_breakdown |-> <<>>]]
    ELSE IF \E k \in 1..Len(sales) : Strptime(sales[k].sale_time.chars).exc
    THEN [raised |-> TRUE, result |-> None]
    ELSE [raised |-> FALSE,
          result |-> [date               |-> IsoDate(date),
                      total_transactions |-> Len(sales),
                      total_revenue      |-> SumOf(Column(sales, "total_amount")),
                      items_sold         |-> SumOf(Column(sales, "quantity")),
                      avg_transaction    |-> Ratio(SumOf(Column(sales, "total_amount")),
                                                   Len(sales)),
                      top_items          |-> TopItems(sales),
                      hourly_breakdown   |-> HourlyBreakdown(sales)]]

\* position_breakdown, keyed by the position
PositionBreakdown(shifts) ==
    [position \in { shifts[k].position : k \in 1..Len(shifts) } |->
        [shifts |-> Len(SelectSeq(shifts, LAMBDA r : r.position = position)),
         hours  |-> SumOf(Column(SelectSeq(shifts, LAMBDA r : r.position = position),
                                 "worked_hours")),
         cost   |-> SumOf(NotNull(Column(SelectSeq(shifts, LAMBDA r : r.position = position),
                                         "total_cost")))]]

\* RosterManager.get_daily_summary(date), given the day's shifts
RosterDailySummaryOf(shifts, date) ==
    IF shifts = <<>>
    THEN [raised |-> FALSE,
          result |-> [date |-> IsoDate(date), total_shifts |-> 0, total_hours |-> 0,
                      total_cost |-> 0, employees_working |-> 0,
                      position_breakdown |-> <<>>]]
    ELSE [raised |-> FALSE,
          result |-> [date                |-> IsoDate(date),
                      total_shifts        |-> Len(shifts),
                      total_hours         |-> SumOf(Column(shifts, "worked_hours")),
                      total_cost          |-> SumOf(NotNull(Column(shifts, "total_cost"))),
                      employees_working   |-> Cardinality({ shifts[k].employee_id :
                                                              k \in 1..Len(shifts) }),
                      avg_hours_per_shift |-> Ratio(SumOf(Column(shifts, "worked_hours")),
                                                    Len(shifts)),
                      position_breakdown  |-> PositionBreakdown(shifts)]]

\* a sale handed to Database.insert_pos_sale
Sale(sale_date, sale_time, item_name, quantity, unit_price, employee_id) ==
    [sale_date |-> sale_date, sale_time |-> StrValue(sale_time), item_name |-> item_name,
     item_category |-> "Main", quantity |-> quantity, unit_price |-> unit_price,
     total_amount |-> quantity * unit_price, employee_id |-> employee_id]

\* the sales inserted one at a time: three of 2026-11-03, two of them at the
\* same time and one without an employee, one of 2026-10-28 at "9:05:00",
\* one of 2026-10-27, one of 2026-11-04, and one of 2026-11-03 whose time
\* "12:30" has no seconds
StoreSales ==
    << Sale(46327, IsoFormat(Time(13, 0, 0)), "Burger Deluxe", 5, 1850, EmpId(1)),
       Sale(46327, IsoFormat(Time(12, 0, 0)), "Cappuccino", 5, 450, None),
       Sale(46327, IsoFormat(Time(12, 0, 0)), "Caesar Salad", 2, 1400, EmpId(3)),
       Sale(46321, <<"9", ":", "0", "5", ":", "0", "0">>, "Burger Deluxe", 1, 1850, EmpId(2)),
       Sale(46320, IsoFormat(Time(10, 0, 0)), "Fresh Juice", 1, 600, EmpId(3)),
       Sale(46328, IsoFormat(Time(23, 59, 59)), "Cappuccino", 3, 450, EmpId(1)),
       Sale(46327, <<"1", "2", ":", "3", "0">>, "Soft Drink", 1, 350, EmpId(2)) >>

\* a file of four sales of 2026-11-03 handed to import_pos_data, the third
\* without total_amount
DayFile ==
    << Sale(46327, IsoFormat(Time(9, 15, 0)), "Fish & Chips", 2, 1600, EmpId(3)),
       Sale(46327, IsoFormat(Time(13, 0, 0)), "Chocolate Cake", 5, 850, EmpId(4)),
       Without(Sale(46327, IsoFormat(Time(22, 59, 59)), "Soft Drink", 4, 350, EmpId(4)),
               "total_amount"),
       Sale(46327, IsoFormat(Time(12, 0, 0)), "Garlic Bread", 1, 650, EmpId(7)) >>

\* a shift handed to Database.insert_roster_record
Shift(n, shift_date, start_time, end_time, worked_hours) ==
    [employee_id |-> employees[n].id, employee_name |-> employees[n].name,
     shift_date |-> shift_date, start_time |-> StrValue(IsoFormat(start_time)),
     end_time |-> StrValue(IsoFormat(end_time)), worked_hours |-> worked_hours,
     hourly_rate |-> employees[n].hourly_rate,
     total_cost |-> worked_hours * employees[n].hourly_rate,
     position |-> employees[n].position]

\* the shifts inserted one at a time: two of 2026-11-03, one of them without
\* a total_cost, and one of 2026-10-27
StoreShifts ==
    << Shift(1, 46327, Time(9, 0, 0), Time(17, 0, 0), 800),
       Without(Shift(3, 46327, Time(8, 30, 0), Time(16, 0, 0), 750), "total_cost"),
       Shift(3, 46320, Time(11, 0, 0), Time(19, 0, 0), 800) >>

\* rows the tables hold before a further single insert is made
MaxStoreRows == 3

\* the `days` a range summary is asked for
SummaryDays == {0, 1, 7}

\* the dates a daily summary is asked for
DailyDates == {46321, 46326, 46327}

\* Database.insert_pos_sale, called directly
InsertSale ==
    /\ pc = "ready"
    /\ Len(pos_sales) + Len(roster_data) < MaxStoreRows
    /\ \E k \in 1..Len(StoreSales) :
          pos_sales' = InsertPosSale(pos_sales, StoreSales[k]).rows
    /\ UNCHANGED <<roster_data, pc, loop, gen, imp, hrs, employees_table, ret>>

\* Database.insert_roster_record, called directly
InsertShift ==
    /\ pc = "ready"
    /\ Len(pos_sales) + Len(roster_data) < MaxStoreRows
    /\ \E k \in 1..Len(StoreShifts) :
          roster_data' = InsertRosterRecord(roster_data, StoreShifts[k]).rows
    /\ UNCHANGED <<pos_sales, pc, loop, gen, imp, hrs, employees_table, ret>>

\* POSManager.import_pos_data of the day's file, every INSERT succeeding
ImportDayFile ==
    /\ pc = "ready"
    /\ Len(pos_sales) + Len(roster_data) <= MaxStoreRows
    /\ pos_sales' = ImportPosLoop(ImportStart(pos_sales), DayFile,
                                  [k \in 1..Len(DayFile) |-> FALSE], 1).rows
    /\ UNCHANGED <<roster_data, pc, loop, gen, imp, hrs, employees_table, ret>>

\* what a call leaves for its caller
Returned(kind, args, sales, outcome) ==
    [kind |-> kind, args |-> args, sales |-> sales,
     raised |-> outcome.raised, result |-> outcome.result]

\* a query that cannot raise
Result(result) == [raised |-> FALSE, result |-> result]

CallGetSalesSummary ==
    /\ pc = "ready"
    /\ \E days \in SummaryDays, today \in Todays :
          ret' = Returned("get_sales_summary", [days |-> days, today |-> today], <<>>,
                          Result(GetSalesSummary(pos_sales, days, today)))
    /\ pc' = "returned"
    /\ UNCHANGED <<pos_sales, roster_data, loop, gen, imp, hrs, employees_table>>

CallGetRosterSummary ==
    /\ pc = "ready"
    /\ \E days \in SummaryDays, today \in Todays :
          ret' = Returned("get_roster_summary", [days |-> days, today |-> today], <<>>,
                          Result(GetRosterSummary(roster_data, days, today)))
    /\ pc' = "returned"
    /\ UNCHANGED <<pos_sales, roster_data, loop, gen, imp, hrs, employees_table>>

\* POSManager.get_daily_summary(date)
CallPosDailySummary ==
    /\ pc = "ready"
    /\ \E date \in DailyDates :
          ret' = Returned("pos_daily_summary", [date |-> date],
                          GetDailySales(pos_sales, date),
                          PosDailySummaryOf(GetDailySales(pos_sales, date), date))
    /\ pc' = "returned"
    /\ UNCHANGED <<pos_sales, roster_data, loop, gen, imp, hrs, employees_table>>

\* RosterManager.get_daily_summary(date)
CallRosterDailySummary ==
    /\ pc = "ready"
    /\ \E date \in DailyDates :
          ret' = Returned("roster_daily_summary", [date |-> date],
                          GetDailyRoster(roster_data, date),
                          RosterDailySummaryOf(GetDailyRoster(roster_data, date), date))
    /\ pc' = "returned"
    /\ UNCHANGED <<pos_sales, roster_data, loop, gen, imp, hrs, employees_table>>

\* the caller takes the result
StoreReturn ==
    /\ pc = "returned"
    /\ pc' = "ready"
    /\ ret' = NoRet
    /\ UNCHANGED <<pos_sales, roster_data, loop, gen, imp, hrs, employees_table>>

InitStore ==
    /\ pos_sales = <<>>
    /\ roster_data = <<>>
    /\ pc = "ready"
    /\ loop = NoLoop
    /\ gen = NoGen
    /\ imp = NoImp
    /\ hrs = NoHrs
    /\ employees_table = <<>>
    /\ ret = NoRet

NextStore ==
    \/ InsertSale \/ InsertShift \/ ImportDayFile
    \/ CallGetSalesSummary \/ CallGetRosterSummary
    \/ CallPosDailySummary \/ CallRosterDailySummary
    \/ StoreReturn

SpecStore == InitStore /\ [][NextStore]_vars

-----------------------------------------------------------------------------
(* utils.validate_employee_id.                                             *)

\* the characters str.strip() and int() take for white space
Whitespace == {" "}

\* chars.strip()
Strip(chars) ==
    IF \A k \in 1..Len(chars) : chars[k] \in Whitespace
    THEN <<>>
    ELSE SubSeq(chars,
                CHOOSE a \in 1..Len(chars) :
                    /\ chars[a] \notin Whitespace
                    /\ \A k \in 1..(a - 1) : chars[k] \in Whitespace,
                CHOOSE b \in 1..Len(chars) :
                    /\ chars[b] \notin Whitespace
                    /\ \A k \in (b + 1)..Len(chars) : chars[k] \in Whitespace)

\* a text without its leading sign
Unsigned(chars) ==
    IF chars # <<>> /\ chars[1] \in {"+", "-"} THEN Tail(chars) ELSE chars

\* decimal digits, single underscores allowed between two of them
DigitGroups(chars) ==
    /\ chars # <<>>
    /\ IsDigit(chars[1])
    /\ IsDigit(chars[Len(chars)])
    /\ \A k \in 1..Len(chars) : IsDigit(chars[k]) \/ chars[k] = "_"
    /\ \A k \in 1..(Len(chars) - 1) : ~ (chars[k] = "_" /\ chars[k + 1] = "_")

\* int(text) returns rather than raising ValueError: white space around, an
\* optional sign, digits with single underscores between them
IntAccepts(chars) == DigitGroups(Unsigned(Strip(chars)))

\* text.startswith(prefix)
StartsWith(chars, prefix) ==
    Len(chars) >= Len(prefix) /\ SubSeq(chars, 1, Len(prefix)) = prefix

\* validate_employee_id(employee_id) for None and for a text
ValidateEmployeeId(employee_id) ==
    IF IsNone(employee_id) THEN FALSE
    ELSE IF employee_id.chars = <<>> THEN FALSE
    ELSE IF StartsWith(employee_id.chars, <<"E", "M", "P">>) /\ Len(employee_id.chars) = 6
    THEN IntAccepts(SubSeq(employee_id.chars, 4, Len(employee_id.chars)))
    ELSE FALSE

\* the sampled arguments: None, the empty text, EMP and any three characters
\* of the alphabet, and texts of another length or another prefix
EmployeeIdSamples ==
    {None, StrValue(<<>>)}
      \cup { StrValue(<<"E", "M", "P">> \o tail) :
                tail \in [1..3 -> {"0", "7", "+", "-", " ", "_", "A"}] }
      \cup { StrValue(chars) : chars \in { EmpId(1) \o <<"1">>, <<"E", "M", "P", "1">>,
                                           <<"E", "0", "0", "1">>, <<"e", "m", "p", "0", "0", "1">>,
                                           <<"E", "M", "0", "0", "0", "1">>,
                                           <<" ", "E", "M", "P", "0", "1">> } }

\* one call of validate_employee_id
CallValidateEmployeeId ==
    /\ pc = "ready"
    /\ \E employee_id \in EmployeeIdSamples :
          ret' = Returned("validate_employee_id", employee_id, <<>>,
                          Result(ValidateEmployeeId(employee_id)))
    /\ pc' = "returned"
    /\ UNCHANGED <<pos_sales, roster_data, loop, gen, imp, hrs, employees_table>>

NextValidate == CallValidateEmployeeId \/ StoreReturn

SpecValidate == InitStore /\ [][NextValidate]_vars

-----------------------------------------------------------------------------
(* RosterManager._get_working_employees, one employee at a time.           *)

\* whether the body of the loop draws a second time: on a weekday the elif
\* of a Chef or Server is reached when the first draw was not below 0.7
SecondDraw(emp, date, r1) ==
    /\ emp.position # "Manager"
    /\ weekday(date) < 5
    /\ emp.position \in {"Chef", "Server"}
    /\ ~ (r1 < 70)

\* the body of the loop for one employee, with the draws it made
ScheduleEmployee ==
    /\ pc = "ready"
    /\ \E k \in 1..Len(employees), date \in TargetDates, r1 \in RandomSamples, r2 \in RandomSamples :
          ret' = Returned("get_working_employees",
                          [emp |-> employees[k], date |-> date,
                           draws |-> IF SecondDraw(employees[k], date, r1)
                                     THEN <<r1, r2>> ELSE <<r1>>],
                          <<>>, Result(Attends(employees[k], date, r1, r2)))
    /\ pc' = "returned"
    /\ UNCHANGED <<pos_sales, roster_data, loop, gen, imp, hrs, employees_table>>

NextSchedule == ScheduleEmployee \/ StoreReturn

SpecSchedule == InitStore /\ [][NextSchedule]_vars

-----------------------------------------------------------------------------
(* The employees table (database.py): insert_employee, setup_employees.    *)

\* the row INSERT OR REPLACE writes for employee_data
EmployeeRow(employee_data) ==
    [employee_id |-> employee_data.employee_id,
     name        |-> employee_data.name,
     position    |-> Get(employee_data, "position"),
     hourly_rate |-> Get(employee_data, "hourly_rate"),
     active      |-> IF "active" \in DOMAIN employee_data THEN employee_data.active ELSE TRUE]

\* a row of the table has the primary key of the new one; a NULL key
\* conflicts with no row
Conflicts(row, employee_data) ==
    employee_data.employee_id # None /\ row.employee_id = employee_data.employee_id

\* a plausible slip: a plain INSERT that adds the row whatever the table holds
MutInsertEmployee(rows, employee_data) ==
    IF "employee_id" \notin DOMAIN employee_data \/ "name" \notin DOMAIN employee_data
    THEN [rows |-> rows, raised |-> TRUE]
    ELSE IF IsNone(employee_data.name)
    THEN [rows |-> rows, raised |-> TRUE]
    ELSE [rows |-> Append(rows, EmployeeRow(employee_data)), raised |-> FALSE]

\* Database.insert_employee: KeyError without employee_id or name,
\* IntegrityError for a name of None, else the row replaces the one of its key
InsertEmployee(rows, employee_data) ==
    IF "employee_id" \notin DOMAIN employee_data \/ "name" \notin DOMAIN employee_data
    THEN [rows |-> rows, raised |-> TRUE]
    ELSE IF IsNone(employee_data.name)
    THEN [rows |-> rows, raised |-> TRUE]
    ELSE [rows |-> Append(SelectSeq(rows, LAMBDA row : ~ Conflicts(row, employee_data)),
                          EmployeeRow(employee_data)),
          raised |-> FALSE]

\* the employee_data setup_employees builds for an employee of the roster
SetupData(emp) ==
    [employee_id |-> emp.id, name |-> emp.name, position |-> emp.position,
     hourly_rate |-> emp.hourly_rate, active |-> TRUE]

RECURSIVE SetupFrom(_, _)
\* the loop of setup_employees from the k-th employee on
SetupFrom(rows, k) ==
    IF k > Len(employees) THEN rows
    ELSE SetupFrom(InsertEmployee(rows, SetupData(employees[k])).rows, k + 1)

\* the employee_data of the sampled calls: two roster ids and a new one with
\* other values, with and without the optional keys, a key of None, and calls
\* without a name
EmployeeSamples ==
    { [employee_id |-> EmpId(3), name |-> "Carol Davis", position |-> "Chef",
       hourly_rate |-> 2600, active |-> FALSE],
      [employee_id |-> EmpId(3), name |-> "Carol Jones"],
      [employee_id |-> EmpId(1), name |-> "Alice Johnson", position |-> "Manager",
       hourly_rate |-> 3000],
      [employee_id |-> EmpId(9), name |-> "Ivan Petrov", position |-> "Server",
       hourly_rate |-> 2250, active |-> TRUE],
      [employee_id |-> EmpId(9), name |-> "Ivan Petrov", position |-> "Bartender"],
      [employee_id |-> None, name |-> "Nobody"],
      [employee_id |-> EmpId(1)],
      [employee_id |-> EmpId(3), name |-> None],
      [name |-> "Carol Davis"] }

\* rows the employees table holds at most
MaxEmployeeRows == 10

\* Database.insert_employee, called directly
CallInsertEmployee ==
    /\ pc = "ready"
    /\ \E employee_data \in EmployeeSamples :
          /\ Len(InsertEmployee(employees_table, employee_data).rows) <= MaxEmployeeRows
          /\ employees_table' = InsertEmployee(employees_table, employee_data).rows
          /\ ret' = [kind |-> "insert_employee", args |-> employee_data,
                     raised |-> InsertEmployee(employees_table, employee_data).raised]
    /\ pc' = "returned"
    /\ UNCHANGED <<pos_sales, roster_data, loop, gen, imp, hrs>>

\* RosterManager.setup_employees
SetupEmployees ==
    /\ pc = "ready"
    /\ Len(SetupFrom(employees_table, 1)) <= MaxEmployeeRows
    /\ employees_table' = SetupFrom(employees_table, 1)
    /\ ret' = [kind |-> "setup_employees", raised |-> FALSE]
    /\ pc' = "returned"
    /\ UNCHANGED <<pos_sales, roster_data, loop, gen, imp, hrs>>

NextEmployees == CallInsertEmployee \/ SetupEmployees \/ StoreReturn

SpecEmployees == InitStore /\ [][NextEmployees]_vars

-----------------------------------------------------------------------------
(* Whole process_date calls on a store that already holds records.         *)

\* the row the k-th successful insert of a batch adds to a table of rows:
\* that of an INSERT into a table holding k - 1 rows more
BatchRow(rows, k, sale_data) ==
    [InsertPosSale(<<>>, sale_data).rows[1] EXCEPT !.id = Len(rows) + k]

\* a plausible slip: the batch replaces the rows stored for its date
MutPosBatch(rows, target_date, planned, failing) ==
    SelectSeq(rows, LAMBDA row : row.sale_date # target_date)
       \o [k \in 1..Cardinality((1..planned) \ failing) |->
              BatchRow(rows, k, GenerateTransaction(target_date,
                                                   BatchTransactionDraw(target_date)))]

\* the loop of POSManager.process_date: the table after it, the inserts of
\* the iterations in failing having raised
PosBatch(rows, target_date, planned, failing) ==
    rows \o [k \in 1..Cardinality((1..planned) \ failing) |->
                BatchRow(rows, k, GenerateTransaction(target_date,
                                                     BatchTransactionDraw(target_date)))]

RECURSIVE RosterBatchFrom(_, _, _, _, _)
\* the loop of RosterManager.process_date from the i-th working employee on
RosterBatchFrom(rows, target_date, working, failing, i) ==
    IF i > Len(working) THEN rows
    ELSE RosterBatchFrom(IF i \in failing THEN rows
                         ELSE InsertRosterRecord(rows,
                                  GenerateShift(working[i], target_date,
                                                ShiftDrawAt(working[i], i - 1))).rows,
                         target_date, working, failing, i + 1)

\* the dates of the batches: a Tuesday and a Saturday
FrameDates == {46327, 46331}

\* the sampled value of num_transactions: the least the date allows
BatchSizes(target_date) ==
    { n \in NumTransactions(target_date) : \A m \in NumTransactions(target_date) : n <= m }

\* the sampled iterations whose insert raises: none, or the first
FailingSamples == {{}, {1}}

\* the sampled results of _get_working_employees: the Manager and the first
\* Server, everybody
WorkingSamples ==
    { << employees[1], employees[3] >>, employees }

\* process_date calls made so far
BatchesMade == IF loop = NoLoop THEN 0 ELSE loop.made

\* process_date calls made at most
MaxBatches == 2

\* POSManager.process_date(target_date), the whole call
PosProcessDate ==
    /\ pc = "ready"
    /\ BatchesMade < MaxBatches
    /\ \E target_date \in FrameDates :
         \E planned \in BatchSizes(target_date), failing \in FailingSamples :
            /\ pos_sales' = PosBatch(pos_sales, target_date, planned, failing)
            /\ ret' = Returned("pos_process_date",
                               [target_date |-> target_date, planned |-> planned],
                               <<>>, Result(planned - Cardinality(failing)))
    /\ loop' = [op |-> "batches", made |-> BatchesMade + 1]
    /\ pc' = "returned"
    /\ UNCHANGED <<roster_data, gen, imp, hrs, employees_table>>

\* RosterManager.process_date(target_date), the whole call
RosterProcessDate ==
    /\ pc = "ready"
    /\ BatchesMade < MaxBatches
    /\ \E target_date \in FrameDates, working \in WorkingSamples, failing \in FailingSamples :
            /\ roster_data' = RosterBatchFrom(roster_data, target_date, working, failing, 1)
            /\ ret' = Returned("roster_process_date",
                               [target_date |-> target_date, planned |-> Len(working)],
                               <<>>,
                               Result(Len(working) - Cardinality(failing \cap (1..Len(working)))))
    /\ loop' = [op |-> "batches", made |-> BatchesMade + 1]
    /\ pc' = "returned"
    /\ UNCHANGED <<pos_sales, gen, imp, hrs, employees_table>>

NextFrame ==
    \/ PosProcessDate \/ RosterProcessDate
    \/ ImportDayFile
    \/ CallGetSalesSummary \/ CallGetRosterSummary
    \/ StoreReturn

\* process_date, import and summary calls in any order
SpecFrame == InitStore /\ [][NextFrame]_vars

-----------------------------------------------------------------------------
(* main (main.py): one run of the program.  The run is kept in loop: its   *)
(* arguments, the messages it has logged, the operations it has called and *)
(* what it returned.                                                       *)

\* datetime.strptime(args.date, '%Y-%m-%d').date(): the date of October or
\* November 2026 whose text it is, or ValueError
StrptimeDate(chars) ==
    IF \E d \in 46294..46354 : IsoDate(d) = chars
    THEN [exc |-> FALSE, date |-> CHOOSE d \in 46294..46354 : IsoDate(d) = chars]
    ELSE [exc |-> TRUE, date |-> 0]

\* --date: absent, 2026-11-03, 2026-11-31 and the word "today"
DateArguments ==
    { None, IsoDate(46327),
      <<"2", "0", "2", "6", "-", "1", "1", "-", "3", "1">>,
      <<"t", "o", "d", "a", "y">> }

\* --days
DaysArguments == {0, 1, 2}

\* the messages a process_date logs: its date, one error for every insert
\* that raised, and its count
BatchLog(failures) ==
    <<"processing_date">> \o [k \in 1..failures |-> "record_error"] \o <<"inserted">>

\* the run after log_message of each of the messages
Logged(run, messages) == [run EXCEPT !.log = @ \o messages]

\* the run after a call of an operation of the store or of a manager
Called(run, operation) == [run EXCEPT !.calls = Append(@, operation)]

\* a plausible slip: the except clause logs the error and falls through to
\* the return 0 of a run without error
MutMainExcept(run) == [Logged(run, <<"error">>) EXCEPT !.exit = 0]

\* main's except clause: the error is logged, main returns 1
MainExcept(run) == [Logged(run, <<"error">>) EXCEPT !.exit = 1]

\* the end of main's try block and its return 0
MainCompleted(run) == [Logged(run, <<"success">>) EXCEPT !.exit = 0]

\* main up to its try block: the arguments are parsed, the start is logged
Main ==
    /\ pc = "ready"
    /\ loop = NoLoop
    /\ \E action \in {"setup", "pos", "roster", "report"}, date \in DateArguments,
          days \in DaysArguments, output \in BOOLEAN :
          loop' = [op |-> "main", action |-> action, date |-> date, days |-> days,
                   output |-> output, i |-> 0,
                   log |-> <<"started", "restaurant", "action">>,
                   calls |-> <<>>, exit |-> -1]
    /\ pc' = "main_try"
    /\ UNCHANGED <<pos_sales, roster_data, gen, imp, hrs, employees_table, ret>>

\* setup_database: setup_tables creates the tables or raises
SetupDatabase ==
    /\ pc = "main_try"
    /\ loop.action = "setup"
    /\ \/ /\ loop' = MainCompleted(Logged(Called(Logged(loop, <<"setting_up">>), "setup_tables"),
                                          <<"tables_created", "setup_complete">>))
       \/ /\ loop' = MainExcept(Called(Logged(loop, <<"setting_up">>), "setup_tables"))
    /\ pc' = "main_done"
    /\ UNCHANGED <<pos_sales, roster_data, gen, imp, hrs, employees_table, ret>>

\* process_pos_data / process_roster_data up to the first process_date: with
\* --date the date is parsed, which may raise ValueError
ProcessDataStart ==
    /\ pc = "main_try"
    /\ loop.action \in {"pos", "roster"}
    /\ IF loop.date # None /\ StrptimeDate(loop.date).exc
       THEN /\ loop' = MainExcept(Logged(loop, <<"processing">>))
            /\ pc' = "main_done"
       ELSE /\ loop' = Logged(loop, <<"processing">>)
            /\ pc' = "main_dates"
    /\ UNCHANGED <<pos_sales, roster_data, gen, imp, hrs, employees_table, ret>>

\* the dates process_pos_data and process_roster_data have yet to process:
\* the one of --date, or the last --days days
DatesLeft(run) ==
    IF run.date # None THEN 1 - run.i ELSE run.days - run.i

\* the date of the next process_date
NextTargetDate(run, today) ==
    IF run.date # None THEN StrptimeDate(run.date).date ELSE today - run.i

\* process_pos_data: one pos_manager.process_date(target_date)
ProcessPosDate ==
    /\ pc = "main_dates"
    /\ loop.action = "pos"
    /\ DatesLeft(loop) > 0
    /\ \E today \in Todays :
         \E planned \in BatchSizes(NextTargetDate(loop, today)) :
           \E failing \in FailingSamples \cup {1..planned} :
              /\ pos_sales' = PosBatch(pos_sales, NextTargetDate(loop, today), planned, failing)
              /\ loop' = [Logged(Called(loop, "process_date"),
                                 BatchLog(Cardinality(failing \cap (1..planned))))
                             EXCEPT !.i = @ + 1]
    /\ UNCHANGED <<roster_data, pc, gen, imp, hrs, employees_table, ret>>

\* process_roster_data: one roster_manager.process_date(target_date)
ProcessRosterDate ==
    /\ pc = "main_dates"
    /\ loop.action = "roster"
    /\ DatesLeft(loop) > 0
    /\ \E today \in Todays, working \in WorkingSamples :
         \E failing \in FailingSamples \cup {1..Len(working)} :
              /\ roster_data' = RosterBatchFrom(roster_data, NextTargetDate(loop, today),
                                                working, failing, 1)
              /\ loop' = [Logged(Called(loop, "process_date"),
                                 BatchLog(Cardinality(failing \cap (1..Len(working)))))
                             EXCEPT !.i = @ + 1]
    /\ UNCHANGED <<pos_sales, pc, gen, imp, hrs, employees_table, ret>>

\* process_pos_data / process_roster_data has returned to main
ProcessDataReturn ==
    /\ pc = "main_dates"
    /\ DatesLeft(loop) <= 0
    /\ loop' = MainCompleted(loop)
    /\ pc' = "main_done"
    /\ UNCHANGED <<pos_sales, roster_data, gen, imp, hrs, employees_table, ret>>

\* the run of generate_report when the sales summary, the roster summary or
\* the writing of --output raises, and when nothing does
ReportOutcomes(run) ==
    { Called(Logged(run, <<"generating">>), "get_sales_summary"),
      Called(Called(Logged(run, <<"generating">>), "get_sales_summary"), "get_roster_summary") }
      \cup (IF run.output
            THEN { Called(Called(Called(Logged(run, <<"generating">>), "get_sales_summary"),
                                 "get_roster_summary"), "open") }
            ELSE {})

\* generate_report
GenerateReport ==
    /\ pc = "main_try"
    /\ loop.action = "report"
    /\ \/ \E failed \in ReportOutcomes(loop) : loop' = MainExcept(failed)
       \/ loop' = MainCompleted(
                    Logged(Called(Called(Logged(loop, <<"generating">>), "get_sales_summary"),
                                  "get_roster_summary"),
                           IF loop.output THEN <<"report_saved">> ELSE <<"report_printed">>))
    /\ pc' = "main_done"
    /\ UNCHANGED <<pos_sales, roster_data, gen, imp, hrs, employees_table, ret>>

NextMain ==
    \/ Main
    \/ SetupDatabase
    \/ ProcessDataStart \/ ProcessPosDate \/ ProcessRosterDate \/ ProcessDataReturn
    \/ GenerateReport

\* one run of main, which is not suspended for ever
SpecMain == InitStore /\ [][NextMain]_vars /\ WF_vars(NextMain)

-----------------------------------------------------------------------------
(* Claims.                                                                 *)

\* C1: a finished POSManager.process_date(d) has synthesized between 80 and
\* 120 sale records when d is Monday to Friday and between 120 and 180 when
\* d is Saturday or Sunday, and when no insert failed it returns that number.
C1_TransactionVolume ==
    (pc = "done" /\ loop.op = "pos") =>
        /\ IF weekday(loop.target_date) \in 0..4
           THEN loop.attempted \in 80..120
           ELSE loop.attempted \in 120..180
        /\ loop.failures = 0 => loop.returned = loop.attempted

\* C1 witness: a Saturday batch of at least 120 records, none failed
C1_Witness ==
    /\ pc = "done" /\ loop.op = "pos"
    /\ weekday(loop.target_date) = 5
    /\ loop.failures = 0
    /\ loop.returned = 180

\* C2: whatever inserts fail during either process_date, the batch is not
\* aborted: the call ends by returning, every planned record was attempted,
\* and the count returned is the number of rows the table gained.
C2_FailureIsolation ==
    /\ pc \in {"idle", "pos_loop", "roster_sched", "roster_loop", "done"}
    /\ (pc = "done" /\ loop.op = "pos") =>
          /\ loop.attempted = loop.planned
          /\ loop.returned = Len(pos_sales) - loop.rows_before
          /\ loop.returned = loop.attempted - loop.failures
    /\ (pc = "done" /\ loop.op = "roster") =>
          /\ loop.attempted = Len(loop.working)
          /\ loop.returned = Len(roster_data) - loop.rows_before
          /\ loop.returned = loop.attempted - loop.failures

\* C2 witness: a POS batch that lost two records to the store and still ran
\* to the end
C2_Witness ==
    /\ pc = "done"
    /\ loop.op = "pos"
    /\ loop.failures = 2
    /\ loop.returned = loop.planned - 2
    /\ Len(pos_sales) > 0
    /\ pos_sales[Len(pos_sales)].id = loop.planned - 2

\* C3: a record of _generate_transaction has quantity 1, 2 or 3, a total of
\* quantity x unit_price, and name, category and price of one menu entry.
C3_TransactionWellFormed ==
    gen.kind = "sale" =>
        /\ gen.record.quantity \in {1, 2, 3}
        /\ gen.record.total_amount = gen.record.quantity * gen.record.unit_price
        /\ \E k \in 1..Len(menu_items) :
              /\ menu_items[k].name = gen.record.item_name
              /\ menu_items[k].category = gen.record.item_category
              /\ menu_items[k].price = gen.record.unit_price

\* C3 witness: three lattes
C3_Witness ==
    /\ gen.kind = "sale"
    /\ gen.record.item_name = "Latte"
    /\ gen.record.quantity = 3
    /\ gen.record.total_amount = 1440

\* C4: a record of _generate_shift has worked_hours within the min_hours and
\* max_hours of the employee's position, the employee's roster rate as
\* hourly_rate, and a total_cost of worked_hours x hourly_rate.
C4_ShiftWellFormed ==
    gen.kind = "shift" =>
        LET emp == employees[gen.employee]
            cfg == positions[emp.position]
        IN  /\ gen.record.employee_id = emp.id
            /\ gen.record.worked_hours >= cfg.min_hours * 100
            /\ gen.record.worked_hours <= cfg.max_hours * 100
            /\ gen.record.hourly_rate = emp.hourly_rate
            /\ gen.record.total_cost = gen.record.worked_hours * gen.record.hourly_rate

\* C4 witness: a Server's shift of the full 8 hours
C4_Witness ==
    /\ gen.kind = "shift"
    /\ gen.record.position = "Server"
    /\ gen.record.worked_hours = 800
    /\ gen.record.total_cost = 800 * 2250

\* the last import call: whether its k-th record has every required field
Complete(k) ==
    \A field \in (IF imp.kind = "pos" THEN PosRequiredFields ELSE RosterRequiredFields) :
        field \in DOMAIN imp.data_list[k]

\* the last import call: its k-th record reached the INSERT and the store took it
Accepted(k) == Complete(k) /\ ~ imp.fails[k]

\* the id the k-th record of the last import call is stored under, if accepted
StoredAs(k) == imp.rows_before + Cardinality({ j \in 1..k : Accepted(j) })

\* the table the last import call writes to
ImportTable == IF imp.kind = "pos" THEN pos_sales ELSE roster_data

\* C5: every sale record in the store has quantity >= 1, unit_price >= 0 and
\* total_amount = quantity x unit_price, whatever was imported.
C5_StoredSalesValid ==
    \A k \in 1..Len(pos_sales) :
        /\ pos_sales[k].quantity >= 1
        /\ pos_sales[k].unit_price >= 0
        /\ pos_sales[k].total_amount = pos_sales[k].quantity * pos_sales[k].unit_price

\* C6: import_pos_data and import_roster_data never raise to the caller; a
\* record without a required field is neither stored nor counted, every
\* record of the list is processed, and the count returned is the number of
\* records stored.
C6_ImportIsolation ==
    pc = "imported" =>
        /\ ~ imp.raised
        /\ Len(imp.outcomes) = Len(imp.data_list)
        /\ \A k \in 1..Len(imp.data_list) :
              /\ ~ Complete(k) => imp.outcomes[k].outcome = "skipped"
              /\ imp.outcomes[k].outcome = "stored" <=> Accepted(k)
              /\ Accepted(k) =>
                    /\ imp.outcomes[k].id = StoredAs(k)
                    /\ ImportTable[StoredAs(k)].id = StoredAs(k)
        /\ imp.returned = Len(ImportTable) - imp.rows_before
        /\ imp.returned = Cardinality({ k \in 1..Len(imp.data_list) : Accepted(k) })

\* C6 witness: a roster list whose first record has no end_time and whose
\* second record is stored, after a row that was already there
C6_Witness ==
    /\ pc = "imported"
    /\ imp.kind = "roster"
    /\ imp.rows_before = 1
    /\ Len(imp.data_list) = 2
    /\ "end_time" \notin DOMAIN imp.data_list[1]
    /\ Accepted(2)
    /\ imp.returned = 1
    /\ Len(roster_data) = 2

\* C7: a sale record with every required field and no total_amount that
\* import_pos_data accepts is stored with total_amount = quantity x
\* unit_price, and is counted.
C7_DerivedTotal ==
    (pc = "imported" /\ imp.kind = "pos") =>
        /\ \A k \in 1..Len(imp.data_list) :
              (Accepted(k) /\ "total_amount" \notin DOMAIN imp.data_list[k]) =>
                  /\ StoredAs(k) <= Len(pos_sales)
                  /\ pos_sales[StoredAs(k)].total_amount
                        = imp.data_list[k]["quantity"] * imp.data_list[k]["unit_price"]
        /\ imp.returned >= Cardinality({ k \in 1..Len(imp.data_list) :
                                Accepted(k) /\ "total_amount" \notin DOMAIN imp.data_list[k] })

\* C7 witness: two burgers at 4.50 without a total, stored with 9.00
C7_Witness ==
    /\ pc = "imported"
    /\ imp.kind = "pos"
    /\ Len(imp.data_list) = 1
    /\ imp.data_list[1] = Without(GoodSale, "total_amount")
    /\ Accepted(1)
    /\ pos_sales[StoredAs(1)].total_amount = 900
    /\ imp.returned = 1

\* a start_time or end_time text that is no HH:MM:SS
Unparseable(v) == v.type = "str" /\ Strptime(v.chars).exc

\* C8: a shift record without worked_hours whose start_time or end_time
\* cannot be parsed is a hard error for import_roster_data: it is not stored.
C8_ParseFailureRejected ==
    (pc = "imported" /\ imp.kind = "roster") =>
        \A k \in 1..Len(imp.data_list) :
            (/\ Complete(k)
             /\ "worked_hours" \notin DOMAIN imp.data_list[k]
             /\ \/ Unparseable(imp.data_list[k]["start_time"])
                \/ Unparseable(imp.data_list[k]["end_time"]))
            => imp.outcomes[k].outcome # "stored"

\* the hours calculate_worked_hours can return for a record
ComputedHours(record) ==
    { CalculateWorkedHours(record["start_time"], record["end_time"],
                           Get(record, "meal_breaks"), t[1], t[2]).hours :
        t \in { u \in Todays \X Todays : u[1] <= u[2] } }

\* C9: import_roster_data stores the worked_hours computed from start_time,
\* end_time and meal_breaks when the record has none or a falsy one, and the
\* supplied worked_hours otherwise; it stores worked_hours x hourly_rate as
\* total_cost when the record has no total_cost but an hourly_rate, and the
\* supplied total_cost when it has one.
C9_DerivedShiftFields ==
    (pc = "imported" /\ imp.kind = "roster") =>
        \A k \in 1..Len(imp.data_list) :
            Accepted(k) =>
                LET record == imp.data_list[k]
                    row    == roster_data[StoredAs(k)]
                IN  /\ ("worked_hours" \notin DOMAIN record \/ record["worked_hours"] = 0)
                          => row.worked_hours \in ComputedHours(record)
                    /\ ("worked_hours" \in DOMAIN record /\ record["worked_hours"] # 0)
                          => row.worked_hours = record["worked_hours"]
                    /\ ("total_cost" \notin DOMAIN record /\ "hourly_rate" \in DOMAIN record)
                          => row.total_cost = row.worked_hours * record["hourly_rate"]
                    /\ "total_cost" \in DOMAIN record
                          => row.total_cost = record["total_cost"]

\* C9 witness: 09:00:00 to 17:30:00 with a break of 30 minutes at 28.50 is
\* stored with 8.00 hours and a cost of 228.00; a record that supplies 7.50
\* hours for 09:00:00 to 17:00:00 keeps them
C9_Witness ==
    /\ pc = "imported"
    /\ imp.kind = "roster"
    /\ Len(imp.data_list) = 2
    /\ Accepted(1) /\ Accepted(2)
    /\ "worked_hours" \notin DOMAIN imp.data_list[1]
    /\ roster_data[StoredAs(1)].worked_hours = 800
    /\ roster_data[StoredAs(1)].total_cost = 2280000
    /\ "worked_hours" \in DOMAIN imp.data_list[2]
    /\ "total_cost" \notin DOMAIN imp.data_list[2]
    /\ "hourly_rate" \in DOMAIN imp.data_list[2]
    /\ imp.data_list[2]["worked_hours"] = 750
    /\ roster_data[StoredAs(2)].worked_hours = 750
    /\ roster_data[StoredAs(2)].total_cost = 750 * 2850

\* the call was made with two times of day and a list of breaks in minutes
TimesOfDayCall ==
    /\ hrs.kind = "call"
    /\ hrs.start_time \in TimeArguments
    /\ hrs.end_time \in TimeArguments
    /\ hrs.meal_breaks \in SampleBreaks

\* the time of day an argument of calculate_worked_hours stands for, in seconds
TimeOfDay(v) == IF v.type = "time" THEN SecondsOf(v.time) ELSE Strptime(v.chars).secs

\* (end - start) in hours minus the breaks' minutes / 60, floored at 0 and
\* rounded to 2 decimals, in hundredths of an hour
NetHours(start_secs, end_secs, meal_breaks) ==
    LET net == (end_secs - start_secs) - 60 * BreakMinutes(meal_breaks)
    IN  IF net <= 0 THEN 0 ELSE RoundHalfEven(net, 36)

\* C10: for times of day start <= end and any list of meal breaks,
\* calculate_worked_hours returns (end - start) in hours minus the breaks'
\* minutes / 60, floored at 0 and rounded to 2 decimals, and never a
\* negative number.
C10_WorkedHoursFormula ==
    (TimesOfDayCall /\ TimeOfDay(hrs.start_time) <= TimeOfDay(hrs.end_time)) =>
        /\ hrs.result.hours >= 0
        /\ hrs.result.hours = NetHours(TimeOfDay(hrs.start_time), TimeOfDay(hrs.end_time),
                                       hrs.meal_breaks)

\* the same, for two arguments of one type whose clock reads fall on one day
WorkedHoursFormulaSameDay ==
    (/\ TimesOfDayCall
     /\ hrs.start_time.type = hrs.end_time.type
     /\ hrs.today1 = hrs.today2
     /\ TimeOfDay(hrs.start_time) <= TimeOfDay(hrs.end_time)) =>
        /\ hrs.result.hours >= 0
        /\ hrs.result.hours = NetHours(TimeOfDay(hrs.start_time), TimeOfDay(hrs.end_time),
                                       hrs.meal_breaks)

\* 09:00:00 to 17:30:00 as structured times: 8.5 hours, 8.0 with a break of 30 minutes
WorkedHoursExamples ==
    /\ CalculateWorkedHours(TimeValue(Time(9, 0, 0)), TimeValue(Time(17, 30, 0)),
                            <<>>, 46327, 46327).hours = 850
    /\ CalculateWorkedHours(TimeValue(Time(9, 0, 0)), TimeValue(Time(17, 30, 0)),
                            << [duration |-> 30] >>, 46327, 46327).hours = 800


\* C11: for times of day with end earlier than start, calculate_worked_hours
\* returns (end + 24h - start) in hours (less the breaks); and for two times
\* of day in the same representation and no breaks the result lies in
\* [0, 24).
C11_MidnightCrossing ==
    TimesOfDayCall =>
        /\ TimeOfDay(hrs.end_time) < TimeOfDay(hrs.start_time)
              => hrs.result.hours = NetHours(TimeOfDay(hrs.start_time),
                                             TimeOfDay(hrs.end_time) + 86400,
                                             hrs.meal_breaks)
        /\ (hrs.start_time.type = hrs.end_time.type /\ hrs.meal_breaks = <<>>)
              => (0 <= hrs.result.hours /\ hrs.result.hours < 2400)

\* the first half of it, for two arguments of one type
MidnightCrossingSameType ==
    (/\ TimesOfDayCall
     /\ hrs.start_time.type = hrs.end_time.type
     /\ TimeOfDay(hrs.end_time) < TimeOfDay(hrs.start_time)) =>
        hrs.result.hours = NetHours(TimeOfDay(hrs.start_time),
                                    TimeOfDay(hrs.end_time) + 86400, hrs.meal_breaks)

\* the second half of it with the bound included, for clock reads on one day
WithinADaySameType ==
    (/\ TimesOfDayCall
     /\ hrs.start_time.type = hrs.end_time.type
     /\ hrs.today1 = hrs.today2
     /\ hrs.meal_breaks = <<>>) =>
        (0 <= hrs.result.hours /\ hrs.result.hours <= 2400)

\* the call was made with an argument that is no time of day or a break
\* whose duration is not a number
MalformedCall ==
    /\ hrs.kind = "call"
    /\ \/ hrs.start_time \in MalformedArguments
       \/ hrs.end_time \in MalformedArguments
       \/ hrs.meal_breaks \in MalformedBreaks

\* the call was made with an argument that cannot be converted, compared or
\* subtracted: a text that is no HH:MM:SS, an object that is neither a
\* datetime nor a timedelta once converted, two objects of different classes,
\* or a break whose duration is not a number
FailingCall ==
    /\ hrs.kind = "call"
    /\ \/ Unparseable(hrs.start_time) \/ Unparseable(hrs.end_time)
       \/ hrs.start_time.type = "other" \/ hrs.end_time.type = "other"
       \/ (hrs.start_time.type = "timedelta") # (hrs.end_time.type = "timedelta")
       \/ hrs.meal_breaks \in MalformedBreaks

\* C12 as stated: calculate_worked_hours never raises, and for any malformed
\* input (an unparseable time string, a value of the wrong type, a meal
\* break whose duration is not a number) it returns 0.0.
C12_MalformedGivesZero ==
    MalformedCall => (~ hrs.result.raised /\ hrs.result.hours = 0)

\* C12, amended: calculate_worked_hours never raises and always returns a
\* number >= 0; it returns the 0.0 of its except clause exactly when an
\* argument cannot be converted, compared or subtracted or a break's duration
\* is not a number, and two timedeltas, which are subtracted like datetimes,
\* give their difference in hours.
C12_NeverRaises ==
    hrs.kind = "call" =>
        /\ ~ hrs.result.raised
        /\ hrs.result.hours \in Nat
        /\ hrs.result.failed <=> FailingCall
        /\ hrs.result.failed => hrs.result.hours = 0
        /\ (/\ hrs.start_time = TimedeltaValue(9 * 3600)
            /\ hrs.end_time = TimedeltaValue(17 * 3600 + 1800)
            /\ hrs.meal_breaks = <<>>) => hrs.result.hours = 850

\* C12 witness: the start "9am" with a good end and a break of 30 minutes
\* comes back as the 0.0 of the except clause
C12_Witness ==
    /\ hrs.kind = "call"
    /\ hrs.start_time = NineAm
    /\ hrs.end_time = TimeValue(Time(17, 30, 0))
    /\ hrs.meal_breaks = << [duration |-> 30] >>
    /\ hrs.result.failed
    /\ hrs.result.hours = 0
    /\ ~ hrs.result.raised

\* the last call was a range summary over a window without records
EmptyRange(kind, rows, column) ==
    /\ pc = "returned"
    /\ ret.kind = kind
    /\ InWindow(rows, column, ret.args.days, ret.args.today) = <<>>

\* the last call was a daily summary of a date without records
EmptyDay(kind) ==
    /\ pc = "returned"
    /\ ret.kind = kind
    /\ ret.sales = <<>>

\* a metric of the last result that is there and is 0
Zero(metric) == metric \in DOMAIN ret.result /\ ret.result[metric] = 0

\* an average of the last result that is there and is 0
ZeroAverage(metric) == metric \in DOMAIN ret.result /\ ret.result[metric].num = 0

\* C13: every summary operation evaluated over a date or range with zero
\* matching records raises no error and reports every count, sum and
\* average, the average included, as 0, none of them missing.
C13_EmptySummaryAllZero ==
    /\ EmptyRange("get_sales_summary", pos_sales, "sale_date") =>
          /\ ~ ret.raised
          /\ Zero("total_transactions") /\ Zero("total_revenue")
          /\ ZeroAverage("avg_transaction")
          /\ Zero("active_days") /\ Zero("active_employees")
    /\ EmptyRange("get_roster_summary", roster_data, "shift_date") =>
          /\ ~ ret.raised
          /\ Zero("total_shifts") /\ Zero("total_hours")
          /\ ZeroAverage("avg_hours_per_shift")
          /\ Zero("total_labor_cost") /\ Zero("active_employees")
    /\ EmptyDay("pos_daily_summary") =>
          /\ ~ ret.raised
          /\ Zero("total_transactions") /\ Zero("total_revenue") /\ Zero("items_sold")
          /\ ZeroAverage("avg_transaction")
    /\ EmptyDay("roster_daily_summary") =>
          /\ ~ ret.raised
          /\ Zero("total_shifts") /\ Zero("total_hours") /\ Zero("total_cost")
          /\ Zero("employees_working")
          /\ ZeroAverage("avg_hours_per_shift")

\* what does hold of the four: no error, the counts and sums 0, the average
\* 0 in the range summaries, and no average at all in the daily summaries
EmptySummaryWithoutDailyAverage ==
    /\ EmptyRange("get_sales_summary", pos_sales, "sale_date") =>
          /\ ~ ret.raised
          /\ Zero("total_transactions") /\ Zero("total_revenue")
          /\ ZeroAverage("avg_transaction")
          /\ Zero("active_days") /\ Zero("active_employees")
    /\ EmptyRange("get_roster_summary", roster_data, "shift_date") =>
          /\ ~ ret.raised
          /\ Zero("total_shifts") /\ Zero("total_hours")
          /\ ZeroAverage("avg_hours_per_shift")
          /\ Zero("total_labor_cost") /\ Zero("active_employees")
    /\ EmptyDay("pos_daily_summary") =>
          /\ ~ ret.raised
          /\ Zero("total_transactions") /\ Zero("total_revenue") /\ Zero("items_sold")
          /\ "avg_transaction" \notin DOMAIN ret.result
    /\ EmptyDay("roster_daily_summary") =>
          /\ ~ ret.raised
          /\ Zero("total_shifts") /\ Zero("total_hours") /\ Zero("total_cost")
          /\ Zero("employees_working")
          /\ "avg_hours_per_shift" \notin DOMAIN ret.result

\* the ids of the stored sales dated within the last `days` days up to today
SalesInWindow(days, today) ==
    { k \in 1..Len(pos_sales) :
        today - (days - 1) <= pos_sales[k].sale_date /\ pos_sales[k].sale_date <= today }

RECURSIVE TotalAmount(_)
\* the sum of total_amount over a set of stored sales
TotalAmount(ids) ==
    IF ids = {} THEN 0
    ELSE pos_sales[CHOOSE k \in ids : TRUE].total_amount
         + TotalAmount(ids \ {CHOOSE k \in ids : TRUE})

\* C14: Database.get_sales_summary(days=N) aggregates exactly the stored
\* sales whose sale_date lies in [today - (N - 1), today]: their count, the
\* sum of their total_amount, that sum over the count as the average, the
\* number of distinct dates and the number of distinct employee ids among
\* them; a sale outside the window contributes nothing.
C14_SalesSummaryWindow ==
    (pc = "returned" /\ ret.kind = "get_sales_summary") =>
        /\ ~ ret.raised
        /\ ret.result.total_transactions
              = Cardinality(SalesInWindow(ret.args.days, ret.args.today))
        /\ ret.result.total_revenue = TotalAmount(SalesInWindow(ret.args.days, ret.args.today))
        /\ ret.result.total_transactions > 0 =>
              ret.result.avg_transaction.num * ret.result.total_transactions
                 = ret.result.total_revenue * ret.result.avg_transaction.den
        /\ ret.result.active_days
              = Cardinality({ pos_sales[k].sale_date :
                                k \in SalesInWindow(ret.args.days, ret.args.today) })
        /\ ret.result.active_employees
              = Cardinality({ pos_sales[k].employee_id :
                                k \in SalesInWindow(ret.args.days, ret.args.today) } \ {None})

\* C14 witness: of three sales, of 2026-10-27, 2026-10-28 and 2026-11-03,
\* the summary of the 7 days up to 2026-11-03 counts the last two
C14_Witness ==
    /\ pc = "returned"
    /\ ret.kind = "get_sales_summary"
    /\ ret.args = [days |-> 7, today |-> 46327]
    /\ Len(pos_sales) = 3
    /\ { pos_sales[k].sale_date : k \in 1..3 } = {46320, 46321, 46327}
    /\ ret.result.total_transactions = 2
    /\ ret.result.total_revenue = 1850 + 5 * 1850
    /\ ret.result.active_days = 2
    /\ ret.result.active_employees = 2

RECURSIVE DayQuantity(_, _)
\* the summed quantity of an item over the first n of the day's sales that
\* the last daily summary was given
DayQuantity(item_name, n) ==
    IF n = 0 THEN 0
    ELSE (IF ret.sales[n].item_name = item_name THEN ret.sales[n].quantity ELSE 0)
         + DayQuantity(item_name, n - 1)

\* where among the day's sales an item is met first
FirstSeen(item_name) ==
    CHOOSE k \in 1..Len(ret.sales) :
        /\ ret.sales[k].item_name = item_name
        /\ \A j \in 1..(k - 1) : ret.sales[j].item_name # item_name

\* the items sold on the day
DayItems == { ret.sales[k].item_name : k \in 1..Len(ret.sales) }

\* the items listed in top_items
Listed == { ret.result.top_items[n].item : n \in 1..Len(ret.result.top_items) }

\* C15: top_items of POSManager.get_daily_summary holds at most 5 items,
\* each with its summed quantity of the day, in non-increasing order of that
\* quantity; no omitted item has a larger summed quantity than a listed
\* one; items of equal quantity appear in the order in which they are first
\* met among the day's records.
C15_TopItemsRanking ==
    (pc = "returned" /\ ret.kind = "pos_daily_summary" /\ ~ ret.raised) =>
        /\ Len(ret.result.top_items) <= 5
        /\ Len(ret.result.top_items) = Cardinality(Listed)
        /\ Listed \subseteq DayItems
        /\ Cardinality(DayItems) <= 5 => Listed = DayItems
        /\ \A n \in 1..Len(ret.result.top_items) :
              ret.result.top_items[n].quantity
                 = DayQuantity(ret.result.top_items[n].item, Len(ret.sales))
        /\ \A m, n \in 1..Len(ret.result.top_items) :
              m < n =>
                 /\ ret.result.top_items[m].quantity >= ret.result.top_items[n].quantity
                 /\ ret.result.top_items[m].quantity = ret.result.top_items[n].quantity
                       => FirstSeen(ret.result.top_items[m].item)
                             < FirstSeen(ret.result.top_items[n].item)
        /\ \A omitted \in DayItems \ Listed : \A n \in 1..Len(ret.result.top_items) :
              /\ DayQuantity(omitted, Len(ret.sales)) <= ret.result.top_items[n].quantity
              /\ DayQuantity(omitted, Len(ret.sales)) = ret.result.top_items[n].quantity
                    => FirstSeen(ret.result.top_items[n].item) < FirstSeen(omitted)

\* C15 witness: a day of seven items.  Burger Deluxe x5 was stored first but
\* sold at 13:00:00, Cappuccino x5 at 12:00:00: Cappuccino leads.  Of
\* Fish & Chips x2 (09:15:00) and Caesar Salad x2 (12:00:00) only the first
\* is listed, in fifth place.
C15_Witness ==
    /\ pc = "returned"
    /\ ret.kind = "pos_daily_summary"
    /\ ~ ret.raised
    /\ Cardinality(DayItems) = 7
    /\ pos_sales[1].item_name = "Burger Deluxe"
    /\ Len(ret.result.top_items) = 5
    /\ ret.result.top_items[1] = [item |-> "Cappuccino", quantity |-> 5]
    /\ ret.result.top_items[2].quantity = 5
    /\ ret.result.top_items[3].quantity = 5
    /\ ret.result.top_items[4] = [item |-> "Soft Drink", quantity |-> 4]
    /\ ret.result.top_items[5] = [item |-> "Fish & Chips", quantity |-> 2]

\* the hour of a sale_time text that is HH:MM:SS, the first field
HourOfDay(sale) == FieldValue(SplitColon(sale.sale_time.chars)[1])

RECURSIVE TotalOver(_, _)
\* the sum of one entry of the buckets of hourly_breakdown over a set of keys
TotalOver(keys, entry) ==
    IF keys = {} THEN 0
    ELSE ret.result.hourly_breakdown[CHOOSE h \in keys : TRUE][entry]
         + TotalOver(keys \ {CHOOSE h \in keys : TRUE}, entry)

UnparsedDayRaises ==
    (/\ pc = "returned"
     /\ ret.kind = "pos_daily_summary"
     /\ \E k \in 1..Len(ret.sales) : Unparseable(ret.sales[k].sale_time)) => ret.raised

\* the three letters EMP followed by exactly three decimal digits
EmpAndThreeDigits(chars) ==
    /\ Len(chars) = 6
    /\ SubSeq(chars, 1, 3) = <<"E", "M", "P">>
    /\ \A k \in 4..6 : IsDigit(chars[k])

\* C16: validate_employee_id(s) returns True exactly when s is the three
\* letters EMP followed by exactly three decimal digits, and False for every
\* other text, for the empty text and for None.
C16_EmployeeIdPattern ==
    (pc = "returned" /\ ret.kind = "validate_employee_id")
        => (ret.result <=> (~ IsNone(ret.args) /\ EmpAndThreeDigits(ret.args.chars)))

\* what does hold: EMP and three digits is accepted, and None, the empty
\* text and every text that is not EMP and three more characters are refused
EmployeeIdShapeChecked ==
    (pc = "returned" /\ ret.kind = "validate_employee_id")
        => /\ (~ IsNone(ret.args) /\ EmpAndThreeDigits(ret.args.chars)) => ret.result
           /\ IsNone(ret.args) => ~ ret.result
           /\ (~ IsNone(ret.args) /\ ~ (Len(ret.args.chars) = 6
                                        /\ SubSeq(ret.args.chars, 1, 3) = <<"E", "M", "P">>))
                 => ~ ret.result

\* a returned decision of _get_working_employees about one employee
Scheduling == pc = "returned" /\ ret.kind = "get_working_employees"

\* C17: on a weekday _get_working_employees decides the attendance of a Chef
\* or Server by a single draw compared against 0.70, so that one whose draw
\* is not below 0.70 is not scheduled, and that of every other position but
\* the Manager by a single draw against 0.50.
C17_WeekdayAttendance ==
    (Scheduling /\ weekday(ret.args.date) < 5 /\ ret.args.emp.position # "Manager")
        => /\ Len(ret.args.draws) = 1
           /\ ret.result <=> (ret.args.draws[1] <
                                 (IF ret.args.emp.position \in {"Chef", "Server"} THEN 70 ELSE 50))

\* what does hold on a weekday: a Chef or Server whose first draw is below
\* 0.70 is scheduled on that draw alone, one whose first draw is not is given
\* a second draw against 0.50, and the other positions have one draw against
\* 0.50
WeekdayAttendanceWithSecondDraw ==
    (Scheduling /\ weekday(ret.args.date) < 5 /\ ret.args.emp.position # "Manager")
        => IF ret.args.emp.position \in {"Chef", "Server"}
           THEN IF ret.args.draws[1] < 70
                THEN Len(ret.args.draws) = 1 /\ ret.result
                ELSE Len(ret.args.draws) = 2 /\ (ret.result <=> ret.args.draws[2] < 50)
           ELSE Len(ret.args.draws) = 1 /\ (ret.result <=> ret.args.draws[1] < 50)

\* two values of a column that may hold None are the same
Same(a, b) == IF IsNone(a) \/ IsNone(b) THEN IsNone(a) /\ IsNone(b) ELSE a = b

\* two rows of the employees table hold the same values
SameRow(a, b) ==
    /\ a.employee_id = b.employee_id
    /\ a.name = b.name
    /\ Same(a.position, b.position)
    /\ Same(a.hourly_rate, b.hourly_rate)
    /\ a.active = b.active

\* two tables hold the same rows in the same order
SameRows(s, t) == Len(s) = Len(t) /\ \A k \in 1..Len(s) : SameRow(s[k], t[k])

\* the rows of a table whose key is not that of employee_data
OtherRows(rows, employee_data) ==
    SelectSeq(rows, LAMBDA row : row.employee_id # employee_data.employee_id)

\* at most one row for every employee_id that is not NULL
OneRowPerEmployeeId ==
    \A i \in 1..Len(employees_table), j \in 1..Len(employees_table) :
        (/\ employees_table[i].employee_id # None
         /\ employees_table[i].employee_id = employees_table[j].employee_id) => i = j

\* a successful insert_employee leaves one row of its employee_id, with the
\* values of the call, and the rows of the other ids as they were
UpsertStep ==
    (pc = "ready" /\ pc' = "returned" /\ ret'.kind = "insert_employee"
       /\ ~ ret'.raised /\ ret'.args.employee_id # None)
        => /\ Len(SelectSeq(employees_table',
                            LAMBDA row : row.employee_id = ret'.args.employee_id)) = 1
           /\ \A k \in 1..Len(employees_table') :
                 employees_table'[k].employee_id = ret'.args.employee_id
                    => /\ employees_table'[k].name = ret'.args.name
                       /\ Same(employees_table'[k].position, Get(ret'.args, "position"))
                       /\ Same(employees_table'[k].hourly_rate, Get(ret'.args, "hourly_rate"))
                       /\ employees_table'[k].active
                             = (IF "active" \in DOMAIN ret'.args THEN ret'.args.active ELSE TRUE)
           /\ SameRows(OtherRows(employees_table', ret'.args), OtherRows(employees_table, ret'.args))

\* the rows of a table with the employee_id of an employee of the roster
RowsOf(rows, emp) == SelectSeq(rows, LAMBDA row : row.employee_id = emp.id)

\* setup_employees leaves the 8 rows of the roster, one per employee with the
\* roster's values, and a second run after the first leaves the table as it is
SetupStep ==
    (pc = "ready" /\ pc' = "returned" /\ ret'.kind = "setup_employees")
        => /\ \A e \in 1..Len(employees) :
                 /\ Len(RowsOf(employees_table', employees[e])) = 1
                 /\ SameRow(RowsOf(employees_table', employees[e])[1],
                            EmployeeRow(SetupData(employees[e])))
           /\ Len(employees) = 8
           /\ SameRows(SetupFrom(employees_table', 1), employees_table')

\* C19: Database.insert_employee is an upsert by employee_id: after any
\* sequence of insert_employee calls the employees table holds at most one row
\* per employee_id, carrying the values of the most recent call for that id,
\* and rows of other ids are unchanged; RosterManager.setup_employees is
\* therefore idempotent: a second run leaves the same 8 rows as the first.
C19_EmployeeUpsert ==
    /\ [] OneRowPerEmployeeId
    /\ [][UpsertStep /\ SetupStep]_vars

\* C19 witness: after setup_employees, insert_employee of EMP003 under the
\* name Carol Jones has returned: 8 rows, the one of EMP003 the last, with the
\* new name and no position
C19_Witness ==
    /\ pc = "returned"
    /\ ret.kind = "insert_employee"
    /\ ~ ret.raised
    /\ Len(employees_table) = 8
    /\ employees_table[8].employee_id = EmpId(3)
    /\ employees_table[8].name = "Carol Jones"
    /\ IsNone(employees_table[8].position)
    /\ employees_table[1].name = "Alice Johnson"
    /\ employees_table[2].employee_id = EmpId(2)

\* a key of None is stored as NULL, which conflicts with no row: every such
\* call adds a row
NullKeyAdds ==
    [][(pc = "ready" /\ pc' = "returned" /\ ret'.kind = "insert_employee"
          /\ ~ ret'.raised /\ ret'.args.employee_id = None)
        => Len(employees_table') = Len(employees_table) + 1]_vars

\* every row of the table before is a row of the table after, with the same
\* values, and the rows added have positive ids that no earlier row has
Kept(before, after) ==
    /\ Len(after) >= Len(before)
    /\ \A k \in 1..Len(before) : after[k] = before[k]
    /\ \A k \in (Len(before) + 1)..Len(after) :
          /\ after[k].id > 0
          /\ \A j \in 1..(k - 1) : after[j].id # after[k].id

\* a call that has just returned
ReturnedFrom(kinds) == pc = "ready" /\ pc' = "returned" /\ ret'.kind \in kinds

\* a step of the program keeps the stored records; a process_date adds as
\* many rows as it counts successful inserts, to its own table; a summary
\* adds none
FrameStep ==
    /\ Kept(pos_sales, pos_sales')
    /\ Kept(roster_data, roster_data')
    /\ ReturnedFrom({"pos_process_date"})
          => /\ Len(pos_sales') = Len(pos_sales) + ret'.result
             /\ roster_data' = roster_data
    /\ ReturnedFrom({"roster_process_date"})
          => /\ Len(roster_data') = Len(roster_data) + ret'.result
             /\ pos_sales' = pos_sales
    /\ ReturnedFrom({"get_sales_summary", "get_roster_summary"})
          => pos_sales' = pos_sales /\ roster_data' = roster_data

\* C18: no operation changes or removes a sale or shift record once it is
\* stored: over any sequence of process_date, import and summary calls every
\* earlier record stays with the same field values, and each successful
\* insert adds exactly one record with a fresh positive id, so that a second
\* process_date for a date leaves the first batch intact and adds its own.
C18_StoredRecordsKept == [][FrameStep]_vars

\* C18 witness: two POSManager.process_date calls for Tuesday 2026-11-03 have
\* returned, the first with 80 inserts and the second with 79: 159 rows, the
\* first and the last with the ids 1 and 159
C18_Witness ==
    /\ pc = "returned"
    /\ ret.kind = "pos_process_date"
    /\ loop = [op |-> "batches", made |-> 2]
    /\ ret.args.target_date = 46327
    /\ ret.result = 79
    /\ Len(pos_sales) = 159
    /\ \A k \in 1..Len(pos_sales) : pos_sales[k].sale_date = 46327
    /\ pos_sales[1].id = 1
    /\ pos_sales[159].id = 159

\* an argument of calculate_worked_hours as the "HH:MM:SS" text of its time
\* of day
AsText(v) == IF v.type = "time" THEN StrValue(IsoFormat(v.time)) ELSE v

\* C23: the result of calculate_worked_hours depends only on the times of
\* day of start and end, not on how each is represented: a call with two
\* times of day, each a structured time or an "HH:MM:SS" text, returns the
\* hours the call with both as texts returns.
C23_RepresentationIndependent ==
    TimesOfDayCall =>
        hrs.result.hours = CalculateWorkedHours(AsText(hrs.start_time), AsText(hrs.end_time),
                                                hrs.meal_breaks, hrs.today1, hrs.today2).hours

\* what does hold: two structured times give the hours of their two texts
\* when the two clock reads of the call fall on one day
SameRepresentationSameHours ==
    (/\ TimesOfDayCall
     /\ hrs.start_time.type = hrs.end_time.type
     /\ hrs.today1 = hrs.today2) =>
        hrs.result.hours = CalculateWorkedHours(AsText(hrs.start_time), AsText(hrs.end_time),
                                                hrs.meal_breaks, hrs.today1, hrs.today2).hours

\* the hours calculate_worked_hours(start_time, end_time) returns for the
\* shift record just built, its two clock reads giving the days today1, today2
HoursOfShift(today1, today2) ==
    CalculateWorkedHours(TimeValue(gen.record.start_time), TimeValue(gen.record.end_time),
                         <<>>, today1, today2).hours

\* the shift just built ends after it starts on the day of the shift, and
\* worked_hours (36 seconds to a hundredth) after its start
EndsOnTheSameDay ==
    /\ SecondsOf(gen.record.start_time) < SecondsOf(gen.record.end_time)
    /\ SecondsOf(gen.record.end_time) - SecondsOf(gen.record.start_time)
          = 36 * gen.record.worked_hours
    /\ AddHours(gen.record.shift_date, gen.record.start_time, gen.record.worked_hours)
          = << gen.record.shift_date, gen.record.end_time >>

\* C22: for every shift built by _generate_shift, for every position, start
\* hour and minute of its window and duration within its policy bounds,
\* end_time lies after start_time on the same calendar day and end_time -
\* start_time equals worked_hours (no synthesized shift wraps past midnight),
\* so calculate_worked_hours(start_time, end_time) returns the record's
\* worked_hours.
C22_GeneratedShiftHours ==
    gen.kind = "shift" =>
        /\ EndsOnTheSameDay
        /\ \A today1 \in Todays, today2 \in Todays :
              today1 <= today2 => HoursOfShift(today1, today2) = gen.record.worked_hours

\* what does hold: no synthesized shift wraps past midnight, and
\* calculate_worked_hours returns its worked_hours when both clock reads of
\* the call fall on one day
GeneratedShiftHoursOnOneDay ==
    gen.kind = "shift" =>
        /\ EndsOnTheSameDay
        /\ \A today \in Todays : HoursOfShift(today, today) = gen.record.worked_hours

\* how often a message is in the log of the run
TimesLogged(message) == Len(SelectSeq(loop.log, LAMBDA m : m = message))

\* how often an operation was called in the run
TimesCalled(operation) == Len(SelectSeq(loop.calls, LAMBDA c : c = operation))

\* the run of main at any moment: an error is logged at most once, as the
\* last message and never beside the success message, and then main has
\* returned 1; the success message is the last one too, with main returning
\* 0; no operation of setup or report is called twice and no date is
\* processed twice; an error of the pos and roster actions is that of
\* parsing --date, before any process_date, and never a failed insert
MainSurfacesOnce ==
    loop.op = "main" =>
        /\ TimesLogged("error") + TimesLogged("success") <= 1
        /\ TimesLogged("error") = 1
              => /\ loop.log[Len(loop.log)] = "error"
                 /\ pc = "main_done" /\ loop.exit = 1
        /\ TimesLogged("success") = 1
              => /\ loop.log[Len(loop.log)] = "success"
                 /\ pc = "main_done" /\ loop.exit = 0
        /\ pc = "main_done" => TimesLogged("error") + TimesLogged("success") = 1
        /\ pc # "main_done" => loop.exit = -1
        /\ \A operation \in {"setup_tables", "get_sales_summary", "get_roster_summary", "open"} :
              TimesCalled(operation) <= 1
        /\ TimesCalled("process_date") = loop.i
        /\ loop.i <= (IF loop.date # None THEN 1 ELSE loop.days)
        /\ (loop.action \in {"pos", "roster"} /\ TimesLogged("error") = 1)
              => loop.calls = <<>> /\ TimesLogged("record_error") = 0
        /\ (loop.action \in {"pos", "roster"} /\ pc = "main_done" /\ loop.calls # <<>>)
              => loop.exit = 0 /\ TimesLogged("success") = 1

\* a step of the run only adds to its log and to its calls
MainStep ==
    (loop.op = "main" /\ loop'.op = "main")
        => /\ Len(loop'.log) >= Len(loop.log)
           /\ SubSeq(loop'.log, 1, Len(loop.log)) = loop.log
           /\ Len(loop'.calls) >= Len(loop.calls)
           /\ SubSeq(loop'.calls, 1, Len(loop.calls)) = loop.calls

\* C21: in main an error raised by the setup or report action surfaces
\* exactly once: it is caught and logged, the success message is never
\* emitted afterwards, nothing is retried and main returns 1; the failed
\* inserts of the pos and roster actions never reach main, which logs success
\* and returns 0 whatever their number; and main, once in its try block,
\* returns.
C21_ErrorSurfacesOnce ==
    /\ [] MainSurfacesOnce
    /\ [][MainStep]_vars
    /\ (pc = "main_try") ~> (pc = "main_done")

\* C21 witness: the report action whose get_roster_summary raised after
\* get_sales_summary had returned: the error is the last message, main
\* returned 1
C21_Witness ==
    /\ pc = "main_done"
    /\ loop.op = "main"
    /\ loop.action = "report"
    /\ loop.calls = <<"get_sales_summary", "get_roster_summary">>
    /\ loop.log = <<"started", "restaurant", "action", "generating", "error">>
    /\ loop.exit = 1

\* the pos action over two days whose every insert raised: 160 record errors
\* in the log, the success message last, main returned 0 and nothing stored
EveryInsertFailed ==
    /\ pc = "main_done"
    /\ loop.op = "main"
    /\ loop.action = "pos"
    /\ loop.i = 2
    /\ TimesLogged("record_error") = 160
    /\ loop.log[Len(loop.log)] = "success"
    /\ loop.exit = 0
    /\ pos_sales = <<>>

=============================================================================
